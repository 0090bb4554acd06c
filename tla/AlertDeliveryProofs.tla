------------------------- MODULE AlertDeliveryProofs -------------------------
(***************************************************************************)
(* Theorems about AlertDelivery for any number of notifications, tokens,   *)
(* retry requests and attempts, whatever faults occur.                     *)
(***************************************************************************)
EXTENDS AlertDelivery, FiniteSetTheorems, TLAPS

(* A step of a sender with its push: the only steps that accept pushes or   *)
(* lose answers.                                                            *)
LEMMA SendingStep ==
    ASSUME TypeOK, NEW s \in Senders, Prepare(s) \/ Post(s) \/ Answer(s)
    PROVE  /\ TypeOK'
           /\ stage[s] # "idle" /\ job[s] \in Pushes
           /\ UNCHANGED <<loopVars, job, log, asked, taken, sends>>
           /\ \A q \in Senders : q # s => stage'[q] = stage[q] /\ outcome'[q] = outcome[q]
           /\ \A p \in Pushes : accepted'[p] >= accepted[p]
<1> USE DEF TypeOK, Stages, loopVars, history
<1>1. CASE Prepare(s)
  BY <1>1, DeliveryAssumption DEF Prepare, Return
<1>2. CASE Post(s)
  <2>1. stage[s] = "post" /\ job[s] \in Pushes
    BY <1>2 DEF Post
  <2>2. CASE Accept(s) /\ stage' = [stage EXCEPT ![s] = "wait"] /\ UNCHANGED <<job, attempt, outcome>>
    BY <1>2, <2>1, <2>2 DEF Post, Accept
  <2>3. CASE UNCHANGED accepted /\ (Return(s, "failed") \/ TryAgain(s))
    BY <1>2, <2>1, <2>3, DeliveryAssumption DEF Post, Return, TryAgain
  <2>4. QED
    BY <1>2, <2>2, <2>3 DEF Post
<1>3. CASE Answer(s)
  <2>1. stage[s] = "wait" /\ job[s] \in Pushes
    BY <1>3 DEF Answer
  <2>2. CASE Return(s, "success") /\ UNCHANGED lost
    BY <1>3, <2>1, <2>2 DEF Answer, Return
  <2>3. CASE TryAgain(s) /\ lost' = [lost EXCEPT ![job[s]] = @ + 1]
    BY <1>3, <2>1, <2>3, DeliveryAssumption DEF Answer, Return, TryAgain
  <2>4. QED
    BY <1>3, <2>2, <2>3 DEF Answer
<1>4. QED
  BY <1>1, <1>2, <1>3

(* A sender that lets go of its push, and the run that ends with it.        *)
LEMMA ReleaseStep ==
    ASSUME TypeOK, NEW s \in Senders, Release(s)
    PROVE  /\ stage' \in [Senders -> Stages] /\ stage'[s] = "idle"
           /\ job' \in [Senders -> Pushes \cup {None}] /\ job'[s] = None
           /\ attempt' \in [Senders -> 0 .. MAX_RETRIES]
           /\ outcome' \in [Senders -> {"success", "failed"}] /\ outcome'[s] = "failed"
           /\ \A q \in Senders \ {s} : /\ stage'[q] = stage[q] /\ job'[q] = job[q]
                                        /\ outcome'[q] = outcome[q]
           /\ \A q \in Senders : stage'[q] = "idle" <=> job'[q] = None
BY DeliveryAssumption DEF TypeOK, Stages, Release

LEMMA EndStep ==
    ASSUME TypeOK, EndLoop, log' \subseteq Rows, UNCHANGED <<asked, history>>
    PROVE  TypeOK'
<1>1. Cron \in Senders
  BY DEF Senders
<1>2. QED
  BY <1>1, ReleaseStep DEF TypeOK, EndLoop, history

LEMMA TypeStep ==
    ASSUME TypeOK, [Next]_vars
    PROVE  TypeOK'
<1> USE DEF TypeOK, Stages, loopVars, senderVars, history
<1>0. /\ Cron \in Senders /\ Admins \subseteq Senders
      /\ 0 \in 0 .. MAX_RETRIES
  BY DeliveryAssumption DEF Senders
<1>1. CASE UNCHANGED vars
  BY <1>1 DEF vars
<1>2. ASSUME NEW a \in Notifications, NextNotification(a) PROVE TypeOK'
  <2>1. a # None
    BY DeliveryAssumption
  <2>2. QED
    BY <1>2, <2>1 DEF NextNotification
<1>3. ASSUME NEW t \in Tokens, TakeToken(t) PROVE TypeOK'
  <2>1. current \in Notifications /\ <<current, t>> \in Pushes
    BY <1>3 DEF TakeToken, Pushes
  <2>2. <<current, t>> # None
    BY <2>1, DeliveryAssumption DEF Pushes
  <2>3. QED
    BY <1>0, <1>3, <2>1, <2>2 DEF TakeToken
<1>4. CASE QueryFails \/ LoopDone \/ EvictRun
  BY <1>4, EndStep DEF QueryFails, LoopDone, EvictRun
<1>5. ASSUME NEW s \in Senders, NEW status \in {"success", "failed", "error"},
             job[s] \in Pushes, Insert(s, status)
      PROVE  log' \subseteq Rows
  BY <1>5 DEF Insert, Rows
<1>6. CASE SkipExpo \/ LogResult \/ LogError
  <2>1. stage[Cron] # "idle" /\ job[Cron] \in Pushes
    BY <1>0, <1>6 DEF SkipExpo, LogResult, LogError
  <2>2. log' \subseteq Rows
    BY <1>0, <1>5, <1>6, <2>1 DEF SkipExpo, LogResult, LogError
  <2>3. CASE EndLoop
    BY <1>6, <2>2, <2>3, EndStep DEF SkipExpo, LogResult, LogError
  <2>4. CASE Release(Cron) /\ UNCHANGED loopVars
    BY <1>0, <1>6, <2>2, <2>4, ReleaseStep DEF SkipExpo, LogResult, LogError
  <2>5. CASE LogResult /\ stage' = [stage EXCEPT ![Cron] = "error"] /\ UNCHANGED <<job, attempt, outcome>>
    BY <1>0, <2>1, <2>2, <2>5 DEF LogResult
  <2>6. QED
    BY <1>6, <2>3, <2>4, <2>5 DEF SkipExpo, LogResult, LogError
<1>7. ASSUME NEW s \in Admins, AskRetry(s) PROVE TypeOK'
  <2>1. PICK row \in log : /\ job' = [job EXCEPT ![s] = row.push]
                           /\ sends' = [sends EXCEPT ![row.push] = @ + 1]
    BY <1>7 DEF AskRetry
  <2>2. row.push \in Pushes /\ row.push # None
    BY DeliveryAssumption DEF Rows, Pushes
  <2>3. QED
    BY <1>0, <1>7, <2>1, <2>2 DEF AskRetry
<1>8. ASSUME NEW s \in Admins, LogRetry(s) PROVE TypeOK'
  <2>1. job[s] \in Pushes
    BY <1>0, <1>8 DEF LogRetry
  <2>2. log' \subseteq Rows
    BY <1>0, <1>5, <1>8, <2>1 DEF LogRetry
  <2>3. QED
    BY <1>0, <1>8, <2>2, ReleaseStep DEF LogRetry
<1>9. ASSUME NEW s \in Admins, EvictRetry(s) PROVE TypeOK'
  BY <1>0, <1>9, ReleaseStep DEF EvictRetry
<1>10. LogRetry(Cron) => FALSE
  BY DeliveryAssumption DEF LogRetry
<1>11. QED
  BY <1>1, <1>2, <1>3, <1>4, <1>6, <1>7, <1>8, <1>9, <1>10, <1>0, SendingStep
     DEF Next, LoopStep, SenderStep

(* Every variable keeps its type: no attempt exceeds MAX_RETRIES, a sender  *)
(* is idle exactly when it has no push.                                     *)
THEOREM TypeCorrect == Spec => []TypeOK
<1>1. Init => TypeOK
  BY DeliveryAssumption DEF Init, TypeOK, Stages
<1>2. TypeOK /\ [Next]_vars => TypeOK'
  BY TypeStep
<1>3. QED
  BY <1>1, <1>2, PTL DEF Spec

-----------------------------------------------------------------------------
(* The kinds of steps, as far as the safety properties tell them apart:     *)
(* the run ends, a sender logs a row and lets go of its push, a retry lets   *)
(* go of its push without a row, the loop goes on to log an error.          *)
Ends == EndLoop /\ UNCHANGED <<log, asked, history>>

Logs(s, status) ==
    /\ stage[s] \in {"expo", "log", "error"}
    /\ status = "success" => outcome[s] = "success"
    /\ Insert(s, status)
    /\ Release(s)
    /\ UNCHANGED <<loopVars, asked, history>>

Drops(s) ==
    /\ Release(s)
    /\ UNCHANGED <<loopVars, log, asked, history>>

Stumbles ==
    /\ stage[Cron] = "log"
    /\ stage' = [stage EXCEPT ![Cron] = "error"]
    /\ UNCHANGED <<job, attempt, outcome, loopVars, log, asked, history>>

LEMMA StepKinds ==
    ASSUME TypeOK, Next
    PROVE  \/ \E a \in Notifications : NextNotification(a)
           \/ \E t \in Tokens : TakeToken(t)
           \/ Ends
           \/ \E s \in Senders, status \in {"success", "failed", "error"} : Logs(s, status)
           \/ \E s \in Admins : Drops(s)
           \/ Stumbles
           \/ \E s \in Admins : AskRetry(s)
           \/ \E s \in Senders : Prepare(s) \/ Post(s) \/ Answer(s)
<1>1. Cron \in Senders /\ Admins \subseteq Senders /\ Cron \notin Admins
  BY DeliveryAssumption DEF Senders
<1>2. \A s \in Senders : outcome[s] \in {"success", "failed"}
  BY DEF TypeOK
<1>3. QueryFails \/ LoopDone \/ EvictRun => Ends
  BY DEF QueryFails, LoopDone, EvictRun, Ends
<1>4. SkipExpo \/ LogError => Ends \/ Logs(Cron, "error")
  BY DEF SkipExpo, LogError, Ends, Logs
<1>5. LogResult => Stumbles \/ Logs(Cron, outcome[Cron])
  BY DEF LogResult, Logs, Stumbles
<1>6. \A s \in Admins : LogRetry(s) => Drops(s) \/ Logs(s, outcome[s])
  BY DEF LogRetry, Drops, Logs
<1>7. \A s \in Admins : EvictRetry(s) => Drops(s)
  BY DEF EvictRetry, Drops
<1>8. ~LogRetry(Cron)
  BY <1>1 DEF LogRetry
<1>9. QED
  BY <1>1, <1>2, <1>3, <1>4, <1>5, <1>6, <1>7, <1>8 DEF Next, LoopStep, SenderStep

-----------------------------------------------------------------------------
(* What the log and the senders know of FCM's answers.                      *)
LEMMA ResultsStep ==
    ASSUME TypeOK, SuccessWasAccepted, ResultsKnown, Next
    PROVE  SuccessWasAccepted' /\ ResultsKnown'
<1>0. Cron \in Senders /\ Admins \subseteq Senders /\ Cron \notin Admins
  BY DeliveryAssumption DEF Senders
<1>1. ASSUME UNCHANGED accepted, asked \subseteq asked',
             NEW s \in Senders,
             \A q \in Senders \ {s} : stage'[q] = stage[q] /\ job'[q] = job[q] /\ outcome'[q] = outcome[q],
             stage'[s] # "wait", outcome'[s] = "failed",
             s \in Admins \ asked' => stage'[s] = "idle"
      PROVE  ResultsKnown'
  BY <1>1 DEF ResultsKnown
<1>2. ASSUME UNCHANGED <<log, accepted>> PROVE SuccessWasAccepted'
  BY <1>2 DEF SuccessWasAccepted
<1>3. ASSUME NEW a \in Notifications, NextNotification(a)
      PROVE  SuccessWasAccepted' /\ ResultsKnown'
  BY <1>2, <1>3 DEF NextNotification, ResultsKnown, senderVars, history
<1>4. ASSUME NEW t \in Tokens, TakeToken(t)
      PROVE  SuccessWasAccepted' /\ ResultsKnown'
  <2>1. outcome'[Cron] = "failed" /\ stage'[Cron] # "wait"
    BY <1>0, <1>4 DEF TakeToken, ResultsKnown, TypeOK
  <2>2. \A q \in Senders \ {Cron} : stage'[q] = stage[q] /\ job'[q] = job[q] /\ outcome'[q] = outcome[q]
    BY <1>4 DEF TakeToken, TypeOK
  <2>3. UNCHANGED <<log, accepted>>
    BY <1>4 DEF TakeToken
  <2>4. QED
    BY <1>0, <1>1, <1>2, <1>4, <2>1, <2>2, <2>3 DEF TakeToken
<1>5. ASSUME NEW s \in Senders, Release(s), UNCHANGED <<accepted, asked>>
      PROVE  ResultsKnown'
  BY <1>1, <1>5, ReleaseStep
<1>6. CASE Ends
  BY <1>0, <1>2, <1>5, <1>6 DEF Ends, EndLoop, history
<1>7. ASSUME NEW s \in Senders, NEW status \in {"success", "failed", "error"}, Logs(s, status)
      PROVE  SuccessWasAccepted' /\ ResultsKnown'
  <2>1. UNCHANGED accepted
    BY <1>7 DEF Logs, history
  <2>2. SuccessWasAccepted'
    BY <1>7, <2>1 DEF Logs, Insert, SuccessWasAccepted, ResultsKnown
  <2>3. QED
    BY <1>5, <1>7, <2>1, <2>2 DEF Logs
<1>8. ASSUME NEW s \in Admins, Drops(s)
      PROVE  SuccessWasAccepted' /\ ResultsKnown'
  BY <1>0, <1>2, <1>5, <1>8 DEF Drops, history
<1>9. CASE Stumbles
  <2>1. \A q \in Senders : stage'[q] \in {"wait", "idle"} => stage[q] = stage'[q]
    BY <1>9 DEF Stumbles, TypeOK
  <2>2. QED
    BY <1>2, <1>9, <2>1 DEF Stumbles, ResultsKnown, history
<1>10. ASSUME NEW s \in Admins, AskRetry(s)
       PROVE  SuccessWasAccepted' /\ ResultsKnown'
  <2>1. PICK row \in log : job' = [job EXCEPT ![s] = row.push]
    BY <1>10 DEF AskRetry
  <2>2. stage[s] = "idle"
    BY <1>0, <1>10 DEF AskRetry, ResultsKnown
  <2>3. outcome'[s] = "failed" /\ stage'[s] = "prepare"
    BY <1>0, <1>10, <2>2 DEF AskRetry, ResultsKnown, TypeOK
  <2>4. \A q \in Senders \ {s} : stage'[q] = stage[q] /\ job'[q] = job[q] /\ outcome'[q] = outcome[q]
    BY <1>10, <2>1 DEF AskRetry, TypeOK
  <2>5. QED
    BY <1>0, <1>1, <1>2, <1>10, <2>3, <2>4 DEF AskRetry
<1>11. ASSUME NEW s \in Senders, Prepare(s) \/ Post(s) \/ Answer(s)
       PROVE  SuccessWasAccepted' /\ ResultsKnown'
  <2>1. /\ job[s] \in Pushes /\ job[s] # None /\ stage[s] # "idle" /\ UNCHANGED <<job, log, asked>>
        /\ \A q \in Senders \ {s} : stage'[q] = stage[q] /\ outcome'[q] = outcome[q]
        /\ \A p \in Pushes : accepted[p] \in Nat /\ accepted'[p] \in Nat /\ accepted'[p] >= accepted[p]
    BY <1>11, SendingStep, DeliveryAssumption DEF TypeOK, Pushes
  <2>2. SuccessWasAccepted'
    BY <2>1 DEF SuccessWasAccepted, TypeOK, Rows
  <2>3. stage'[s] = "wait" \/ outcome'[s] = "success" => accepted'[job[s]] > 0
    BY <1>11, <2>1 DEF Prepare, Post, Accept, Answer, Return, TryAgain, TypeOK, ResultsKnown
  <2>4. stage'[s] # "idle"
    BY <1>11 DEF Prepare, Post, Answer, Return, TryAgain, TypeOK
  <2>5. \A q \in Senders \ {s} : job[q] # None => job[q] \in Pushes
    BY DEF TypeOK
  <2>6. QED
    BY <2>1, <2>2, <2>3, <2>4, <2>5 DEF ResultsKnown
<1>12. QED
  BY <1>3, <1>4, <1>6, <1>7, <1>8, <1>9, <1>10, <1>11, StepKinds

-----------------------------------------------------------------------------
(* The loop takes a push once.                                              *)
LEMMA AskedFinite == TypeOK => IsFiniteSet(asked) /\ Cardinality(asked) \in Nat
BY DeliveryAssumption, FS_Subset, FS_CardinalityType DEF TypeOK

LEMMA TakenStep ==
    ASSUME TypeOK, ResultsKnown, TakenOnce, Next
    PROVE  TakenOnce'
<1>0. /\ IsFiniteSet(asked) /\ Cardinality(asked) \in Nat
      /\ sends \in [Pushes -> Nat] /\ taken \subseteq Pushes
  BY AskedFinite DEF TypeOK
<1>1. ASSUME UNCHANGED <<asked, taken, sends>>,
             todo' \subseteq todo, current' \notin todo',
             \A p \in taken : p[1] = current' => p[2] \notin targets'
      PROVE  TakenOnce'
  BY <1>1 DEF TakenOnce
<1>2. ASSUME NEW a \in Notifications, NextNotification(a) PROVE TakenOnce'
  BY <1>1, <1>2 DEF NextNotification, TakenOnce, history
<1>3. ASSUME NEW t \in Tokens, TakeToken(t) PROVE TakenOnce'
  <2> DEFINE push == <<current, t>>
  <2>1. push \in Pushes /\ push \notin taken /\ push[1] = current /\ push[2] = t
    BY <1>3 DEF TakeToken, TakenOnce, TypeOK, Pushes
  <2>2. /\ taken' = taken \cup {push}
        /\ UNCHANGED <<todo, current, asked>>
        /\ targets' = targets \ {t}
        /\ \A p \in Pushes : sends'[p] <= sends[p] + (IF p = push THEN 1 ELSE 0)
    BY <1>0, <1>3, <2>1 DEF TakeToken
  <2>3. \A p \in taken' : p[1] \notin todo' /\ (p[1] = current' => p[2] \notin targets')
    BY <2>1, <2>2 DEF TakenOnce
  <2>4. sends' \in [Pushes -> Nat]
    BY <1>0, <1>3, <2>1 DEF TakeToken
  <2>5. ASSUME NEW p \in Pushes
        PROVE  sends'[p] <= Cardinality(asked') + (IF p \in taken' THEN 1 ELSE 0)
    <3>1. /\ sends[p] \in Nat /\ sends'[p] \in Nat
          /\ sends'[p] <= sends[p] + (IF p = push THEN 1 ELSE 0)
          /\ sends[p] <= Cardinality(asked) + (IF p \in taken THEN 1 ELSE 0)
      BY <1>0, <2>2, <2>4 DEF TakenOnce
    <3>2. CASE p = push
      BY <1>0, <2>1, <2>2, <3>1, <3>2
    <3>3. CASE p # push
      BY <1>0, <2>1, <2>2, <3>1, <3>3
    <3>4. QED
      BY <3>2, <3>3
  <2>6. QED
    BY <2>2, <2>3, <2>5 DEF TakenOnce
<1>4. CASE Ends
  BY <1>1, <1>4 DEF Ends, EndLoop, history
<1>5. ASSUME NEW s \in Senders, NEW status \in {"success", "failed", "error"}, Logs(s, status)
      PROVE  TakenOnce'
  BY <1>1, <1>5 DEF Logs, loopVars, history, TakenOnce
<1>6. ASSUME NEW s \in Admins, Drops(s) PROVE TakenOnce'
  BY <1>1, <1>6 DEF Drops, loopVars, history, TakenOnce
<1>7. CASE Stumbles
  BY <1>1, <1>7 DEF Stumbles, loopVars, history, TakenOnce
<1>8. ASSUME NEW s \in Admins, AskRetry(s) PROVE TakenOnce'
  <2>1. PICK row \in log : sends' = [sends EXCEPT ![row.push] = @ + 1]
    BY <1>8 DEF AskRetry
  <2>2. Cardinality(asked') = Cardinality(asked) + 1
    BY <1>0, <1>8, FS_AddElement DEF AskRetry
  <2>3. UNCHANGED <<todo, current, targets, taken>>
    BY <1>8 DEF AskRetry, loopVars
  <2>4. \A p \in Pushes : sends[p] \in Nat /\ sends'[p] \in Nat /\ sends'[p] <= sends[p] + 1
    BY <1>0, <2>1
  <2>5. ASSUME NEW p \in Pushes
        PROVE  sends'[p] <= Cardinality(asked') + (IF p \in taken' THEN 1 ELSE 0)
    <3>1. sends[p] <= Cardinality(asked) + (IF p \in taken THEN 1 ELSE 0)
      BY DEF TakenOnce
    <3>2. QED
      BY <1>0, <2>2, <2>3, <2>4, <3>1
  <2>6. QED
    BY <2>3, <2>5 DEF TakenOnce
<1>9. ASSUME NEW s \in Senders, Prepare(s) \/ Post(s) \/ Answer(s) PROVE TakenOnce'
  BY <1>1, <1>9, SendingStep DEF loopVars, TakenOnce
<1>10. QED
  BY <1>2, <1>3, <1>4, <1>5, <1>6, <1>7, <1>8, <1>9, StepKinds

-----------------------------------------------------------------------------
LEMMA OpenFinite ==
    ASSUME NEW p
    PROVE  IsFiniteSet(Open(p)) /\ Cardinality(Open(p)) \in Nat
<1>1. IsFiniteSet(Senders)
  BY DeliveryAssumption, FS_AddElement DEF Senders
<1>2. Open(p) \in SUBSET Senders
  BY DEF Open
<1>3. QED
  BY <1>1, <1>2, FS_Subset, FS_CardinalityType

(* How the senders with an attempt before them change when one sender does. *)
LEMMA OpenChange ==
    ASSUME NEW p, NEW s \in Senders,
           \A q \in Senders \ {s} : stage'[q] = stage[q] /\ job'[q] = job[q]
    PROVE  LET before == Cardinality(Open(p))
               after  == Cardinality(Open(p)')
           IN  /\ before \in Nat /\ after \in Nat
               /\ after <= before + 1
               /\ s \in Open(p) \/ s \notin Open(p)' => after <= before
               /\ s \in Open(p) /\ s \notin Open(p)' => after + 1 <= before
<1> DEFINE rest == Open(p) \ {s}
<1>2. IsFiniteSet(rest) /\ Cardinality(rest) \in Nat
  <2>1. IsFiniteSet(rest)
    BY OpenFinite, FS_RemoveElement
  <2>2. QED
    BY <2>1, FS_CardinalityType
<1>3. /\ Open(p) = rest \/ Open(p) = rest \cup {s}
      /\ s \in Open(p) => Open(p) = rest \cup {s}
      /\ s \notin Open(p) => Open(p) = rest
  OBVIOUS
<1>4. Open(p)' \ {s} = rest
  BY DEF Open
<1>5. /\ s \in Open(p)' => Open(p)' = rest \cup {s}
      /\ s \notin Open(p)' => Open(p)' = rest
  BY <1>4
<1>6. Cardinality(rest \cup {s}) = Cardinality(rest) + 1
  BY <1>2, FS_AddElement
<1> HIDE DEF rest
<1>7. QED
  BY <1>2, <1>3, <1>5, <1>6

(* FCM accepts no more than was sent, but for the answers lost.             *)
LEMMA AcceptsStep ==
    ASSUME TypeOK, ResultsKnown, AcceptsCounted, Next
    PROVE  AcceptsCounted'
<1>0. /\ Cron \in Senders /\ Admins \subseteq Senders
      /\ sends \in [Pushes -> Nat] /\ accepted \in [Pushes -> Nat] /\ lost \in [Pushes -> Nat]
  BY DEF Senders, TypeOK
(* No step but a post or an answer accepts a push or loses an answer.       *)
<1>1. ASSUME NEW s \in Senders, UNCHANGED <<sends, accepted, lost>>,
             \A q \in Senders \ {s} : stage'[q] = stage[q] /\ job'[q] = job[q],
             \A p \in Pushes : s \in Open(p) \/ s \notin Open(p)'
      PROVE  AcceptsCounted'
  <2>1. SUFFICES ASSUME NEW p \in Pushes
                 PROVE  accepted'[p] + Cardinality(Open(p)') <= sends'[p] + lost'[p]
    BY DEF AcceptsCounted
  <2>2. accepted[p] + Cardinality(Open(p)) <= sends[p] + lost[p]
    BY DEF AcceptsCounted
  <2>3. /\ Cardinality(Open(p)) \in Nat /\ Cardinality(Open(p)') \in Nat
        /\ Cardinality(Open(p)') <= Cardinality(Open(p))
    BY <1>1, OpenChange
  <2>4. QED
    BY <1>0, <1>1, <2>2, <2>3
<1>2. ASSUME NEW s \in Senders, NEW push \in Pushes,
             sends' = [sends EXCEPT ![push] = @ + 1], UNCHANGED <<accepted, lost>>,
             \A q \in Senders \ {s} : stage'[q] = stage[q] /\ job'[q] = job[q],
             job'[s] = push
      PROVE  AcceptsCounted'
  <2>1. SUFFICES ASSUME NEW p \in Pushes
                 PROVE  accepted'[p] + Cardinality(Open(p)') <= sends'[p] + lost'[p]
    BY DEF AcceptsCounted
  <2>2. accepted[p] + Cardinality(Open(p)) <= sends[p] + lost[p]
    BY DEF AcceptsCounted
  <2>3. p # push => s \notin Open(p)'
    BY <1>2 DEF Open
  <2>4. /\ Cardinality(Open(p)) \in Nat /\ Cardinality(Open(p)') \in Nat
        /\ Cardinality(Open(p)') <= Cardinality(Open(p)) + 1
        /\ p # push => Cardinality(Open(p)') <= Cardinality(Open(p))
    BY <1>2, <2>3, OpenChange
  <2>5. sends'[p] = IF p = push THEN sends[p] + 1 ELSE sends[p]
    BY <1>0, <1>2
  <2>6. QED
    BY <1>0, <1>2, <2>2, <2>4, <2>5
<1>3. ASSUME NEW s \in Senders, Release(s), UNCHANGED <<sends, accepted, lost>>
      PROVE  AcceptsCounted'
  <2>1. \A p \in Pushes : s \notin Open(p)'
    BY <1>3, ReleaseStep DEF Open
  <2>2. QED
    BY <1>1, <1>3, <2>1, ReleaseStep
<1>4. ASSUME NEW a \in Notifications, NextNotification(a) PROVE AcceptsCounted'
  BY <1>4 DEF NextNotification, senderVars, history, AcceptsCounted, Open
<1>5. ASSUME NEW t \in Tokens, TakeToken(t) PROVE AcceptsCounted'
  <2> DEFINE push == <<current, t>>
  <2>1. /\ push \in Pushes
        /\ job' = [job EXCEPT ![Cron] = push]
        /\ \A q \in Senders \ {Cron} : stage'[q] = stage[q]
        /\ UNCHANGED <<accepted, lost>>
    BY <1>5 DEF TakeToken, TypeOK, Pushes
  <2>2. job'[Cron] = push /\ \A q \in Senders \ {Cron} : job'[q] = job[q]
    BY <1>0, <2>1 DEF TypeOK
  <2>3. CASE UNCHANGED sends /\ stage' = [stage EXCEPT ![Cron] = "expo"]
    <3>1. \A p \in Pushes : Cron \notin Open(p)'
      BY <1>0, <2>3 DEF Open, TypeOK
    <3>2. QED
      BY <1>0, <1>1, <2>1, <2>2, <2>3, <3>1
  <2>4. CASE sends' = [sends EXCEPT ![push] = @ + 1]
    BY <1>0, <1>2, <2>1, <2>2, <2>4
  <2>5. QED
    BY <1>5, <2>3, <2>4 DEF TakeToken
<1>6. CASE Ends
  BY <1>0, <1>3, <1>6 DEF Ends, EndLoop, history
<1>7. ASSUME NEW s \in Senders, NEW status \in {"success", "failed", "error"}, Logs(s, status)
      PROVE  AcceptsCounted'
  BY <1>3, <1>7 DEF Logs, history
<1>8. ASSUME NEW s \in Admins, Drops(s) PROVE AcceptsCounted'
  BY <1>0, <1>3, <1>8 DEF Drops, history
<1>9. CASE Stumbles
  <2>1. \A p \in Pushes : Cron \notin Open(p)'
    BY <1>0, <1>9 DEF Stumbles, Open, TypeOK
  <2>2. QED
    BY <1>0, <1>1, <1>9, <2>1 DEF Stumbles, history, TypeOK
<1>10. ASSUME NEW s \in Admins, AskRetry(s) PROVE AcceptsCounted'
  <2>1. PICK row \in log : /\ job' = [job EXCEPT ![s] = row.push]
                           /\ sends' = [sends EXCEPT ![row.push] = @ + 1]
    BY <1>10 DEF AskRetry
  <2>2. row.push \in Pushes
    BY DEF TypeOK, Rows
  <2>3. job'[s] = row.push /\ \A q \in Senders \ {s} : stage'[q] = stage[q] /\ job'[q] = job[q]
    BY <1>0, <1>10, <2>1 DEF AskRetry, TypeOK
  <2>4. QED
    BY <1>0, <1>2, <1>10, <2>1, <2>2, <2>3 DEF AskRetry
<1>11. ASSUME NEW s \in Senders, Prepare(s) \/ Post(s) \/ Answer(s) PROVE AcceptsCounted'
  <2>1. /\ UNCHANGED <<job, sends>>
        /\ job[s] \in Pushes
        /\ \A q \in Senders \ {s} : stage'[q] = stage[q] /\ job'[q] = job[q]
    BY <1>11, SendingStep
  <2>2. \A p \in Pushes : (s \in Open(p) <=> p = job[s] /\ stage[s] \in {"prepare", "post"})
    BY DEF Open
  <2>3. CASE Prepare(s) \/ (Post(s) /\ UNCHANGED accepted)
    <3>1. UNCHANGED <<accepted, lost>> /\ stage[s] \in {"prepare", "post"}
      BY <2>3 DEF Prepare, Post, history
    <3>2. \A p \in Pushes : s \in Open(p) \/ s \notin Open(p)'
      BY <2>1, <3>1 DEF Open
    <3>3. QED
      BY <1>1, <2>1, <3>1, <3>2
  <2>4. CASE Post(s) /\ Accept(s) /\ stage' = [stage EXCEPT ![s] = "wait"]
    <3>1. SUFFICES ASSUME NEW p \in Pushes
                   PROVE  accepted'[p] + Cardinality(Open(p)') <= sends'[p] + lost'[p]
      BY DEF AcceptsCounted
    <3>2. accepted[p] + Cardinality(Open(p)) <= sends[p] + lost[p]
      BY DEF AcceptsCounted
    <3>3. s \notin Open(p)' /\ (p = job[s] => s \in Open(p))
      BY <2>1, <2>4 DEF Post, Open, TypeOK
    <3>4. /\ Cardinality(Open(p)) \in Nat /\ Cardinality(Open(p)') \in Nat
          /\ Cardinality(Open(p)') <= Cardinality(Open(p))
          /\ p = job[s] => Cardinality(Open(p)') + 1 <= Cardinality(Open(p))
      BY <2>1, <3>3, OpenChange
    <3>5. /\ UNCHANGED <<sends, lost>>
          /\ accepted'[p] = IF p = job[s] THEN accepted[p] + 1 ELSE accepted[p]
      BY <1>0, <2>1, <2>4 DEF Post, Accept
    <3>6. QED
      BY <1>0, <3>2, <3>4, <3>5
  <2>5. CASE Answer(s) /\ Return(s, "success") /\ UNCHANGED lost
    <3>1. \A p \in Pushes : s \notin Open(p)'
      BY <2>5 DEF Return, Open, TypeOK
    <3>2. QED
      BY <1>1, <2>1, <2>5, <3>1 DEF Answer
  <2>6. CASE Answer(s) /\ lost' = [lost EXCEPT ![job[s]] = @ + 1]
    <3>1. SUFFICES ASSUME NEW p \in Pushes
                   PROVE  accepted'[p] + Cardinality(Open(p)') <= sends'[p] + lost'[p]
      BY DEF AcceptsCounted
    <3>2. accepted[p] + Cardinality(Open(p)) <= sends[p] + lost[p]
      BY DEF AcceptsCounted
    <3>3. p # job[s] => s \notin Open(p)'
      BY <2>1 DEF Open
    <3>4. /\ Cardinality(Open(p)) \in Nat /\ Cardinality(Open(p)') \in Nat
          /\ Cardinality(Open(p)') <= Cardinality(Open(p)) + 1
          /\ p # job[s] => Cardinality(Open(p)') <= Cardinality(Open(p))
      BY <2>1, <3>3, OpenChange
    <3>5. /\ UNCHANGED <<sends, accepted>>
          /\ lost'[p] = IF p = job[s] THEN lost[p] + 1 ELSE lost[p]
      BY <1>0, <2>1, <2>6 DEF Answer
    <3>6. QED
      BY <1>0, <3>2, <3>4, <3>5
  <2>7. QED
    BY <1>11, <2>3, <2>4, <2>5, <2>6 DEF Post, Answer
<1>12. QED
  BY <1>4, <1>5, <1>6, <1>7, <1>8, <1>9, <1>10, <1>11, StepKinds

-----------------------------------------------------------------------------
(* The push without a row is the one in hand, or was when the run ended.    *)
LEMMA UnloggedStep ==
    ASSUME TypeOK, OneUnlogged, Next
    PROVE  OneUnlogged'
<1>0. Cron \in Senders /\ Cron \notin Admins /\ Admins \subseteq Senders
  BY DeliveryAssumption DEF Senders
<1>1. ASSUME UNCHANGED taken, log \subseteq log', running' \in {running, FALSE},
             running' => job'[Cron] = job[Cron]
      PROVE  OneUnlogged'
  <2>1. \A p : Logged(p) => Logged(p)'
    BY <1>1 DEF Logged
  <2>2. QED
    BY <1>1, <2>1 DEF OneUnlogged
<1>2. ASSUME NEW a \in Notifications, NextNotification(a) PROVE OneUnlogged'
  BY <1>1, <1>2 DEF NextNotification, senderVars, history
<1>3. ASSUME NEW t \in Tokens, TakeToken(t) PROVE OneUnlogged'
  <2>1. /\ running /\ job[Cron] = None
        /\ taken' = taken \cup {<<current, t>>}
        /\ job'[Cron] = <<current, t>>
        /\ UNCHANGED log
    BY <1>0, <1>3 DEF TakeToken, TypeOK
  <2>2. \A p \in taken : Logged(p)
    BY <2>1, DeliveryAssumption DEF OneUnlogged, TypeOK, Pushes
  <2>3. \A p : Logged(p)' <=> Logged(p)
    BY <2>1 DEF Logged
  <2>4. QED
    BY <2>1, <2>2, <2>3 DEF OneUnlogged
<1>4. CASE Ends
  BY <1>1, <1>4 DEF Ends, EndLoop, history
<1>5. ASSUME NEW s \in Senders, NEW status \in {"success", "failed", "error"}, Logs(s, status)
      PROVE  OneUnlogged'
  <2>1. UNCHANGED <<running, taken>> /\ log \subseteq log'
    BY <1>5 DEF Logs, Insert, loopVars, history
  <2>2. CASE s # Cron
    <3>1. job'[Cron] = job[Cron]
      BY <1>0, <1>5, <2>2, ReleaseStep DEF Logs
    <3>2. QED
      BY <1>1, <2>1, <3>1
  <2>3. CASE s = Cron
    <3>1. \A p : p = job[Cron] => Logged(p)'
      <4> DEFINE row == [push |-> job[Cron], status |-> status, by |-> "loop"]
      <4>1. row \in log'
        BY <1>5, <2>3 DEF Logs, Insert
      <4>2. row.push = job[Cron] /\ row.by = "loop"
        OBVIOUS
      <4> HIDE DEF row
      <4>3. QED
        BY <4>1, <4>2 DEF Logged
    <3>2. \A p : Logged(p) => Logged(p)'
      BY <2>1 DEF Logged
    <3>3. QED
      BY <2>1, <3>1, <3>2 DEF OneUnlogged
  <2>4. QED
    BY <2>2, <2>3
<1>6. ASSUME NEW s \in Admins, Drops(s) PROVE OneUnlogged'
  <2>1. job'[Cron] = job[Cron]
    BY <1>0, <1>6, ReleaseStep DEF Drops
  <2>2. QED
    BY <1>1, <1>6, <2>1 DEF Drops, loopVars, history
<1>7. CASE Stumbles
  BY <1>1, <1>7 DEF Stumbles, loopVars, history
<1>8. ASSUME NEW s \in Admins, AskRetry(s) PROVE OneUnlogged'
  <2>1. job'[Cron] = job[Cron]
    BY <1>0, <1>8 DEF AskRetry, TypeOK
  <2>2. QED
    BY <1>1, <1>8, <2>1 DEF AskRetry, loopVars
<1>9. ASSUME NEW s \in Senders, Prepare(s) \/ Post(s) \/ Answer(s) PROVE OneUnlogged'
  BY <1>1, <1>9, SendingStep DEF loopVars
<1>10. QED
  BY <1>2, <1>3, <1>4, <1>5, <1>6, <1>7, <1>8, <1>9, StepKinds

-----------------------------------------------------------------------------
(* FCM accepts at most MAX_RETRIES requests per send: each attempt of a      *)
(* sender is accepted once at most, and none is made twice.                 *)
LEMMA OneMoreTime == \A m, n \in Nat : m * (n + 1) = m * n + m
OBVIOUS

LEMMA AttemptsFinite ==
    ASSUME NEW p
    PROVE  /\ IsFiniteSet(AttemptsLeft(p)) /\ Cardinality(AttemptsLeft(p)) \in Nat
           /\ IsFiniteSet(AttemptsLeft(p)') /\ Cardinality(AttemptsLeft(p)') \in Nat
<1>1. IsFiniteSet(Senders) /\ IsFiniteSet(1 .. MAX_RETRIES)
  BY DeliveryAssumption, FS_AddElement, FS_Interval DEF Senders
<1>2. IsFiniteSet(Senders \X (1 .. MAX_RETRIES))
  BY <1>1, FS_Product
<1>3. /\ AttemptsLeft(p) \subseteq Senders \X (1 .. MAX_RETRIES)
      /\ AttemptsLeft(p)' \subseteq Senders \X (1 .. MAX_RETRIES)
  BY DEF AttemptsLeft
<1>4. QED
  BY <1>2, <1>3, FS_Subset, FS_CardinalityType

LEMMA FewerAttempts ==
    ASSUME NEW p, AttemptsLeft(p)' \subseteq AttemptsLeft(p)
    PROVE  Cardinality(AttemptsLeft(p)') <= Cardinality(AttemptsLeft(p))
BY AttemptsFinite, FS_Subset

(* A sender that gives up attempts, or goes on to the next one.             *)
LEMMA AttemptsGivenUp ==
    ASSUME TypeOK, AttemptsCounted, UNCHANGED <<sends, accepted>>, NEW s \in Senders,
           \A q \in Senders \ {s} :
               stage'[q] = stage[q] /\ job'[q] = job[q] /\ attempt'[q] = attempt[q],
           \A k \in Left(s)' : k \in Left(s) /\ job'[s] = job[s],
           stage'[s] \in {"post", "wait"} => attempt'[s] > 0
    PROVE  AttemptsCounted'
<1>1. \A q \in Senders \ {s} : Left(q)' = Left(q)
  BY DEF Left
<1>2. \A p : AttemptsLeft(p)' \subseteq AttemptsLeft(p)
  BY <1>1 DEF AttemptsLeft
<1>3. \A q \in Senders : stage'[q] \in {"post", "wait"} => attempt'[q] > 0
  BY DEF AttemptsCounted
<1>4. ASSUME NEW p \in Pushes
      PROVE  accepted'[p] + Cardinality(AttemptsLeft(p)') <= MAX_RETRIES * sends'[p]
  <2>1. accepted[p] + Cardinality(AttemptsLeft(p)) <= MAX_RETRIES * sends[p]
    BY DEF AttemptsCounted
  <2>2. /\ Cardinality(AttemptsLeft(p)) \in Nat /\ Cardinality(AttemptsLeft(p)') \in Nat
        /\ Cardinality(AttemptsLeft(p)') <= Cardinality(AttemptsLeft(p))
    BY <1>2, AttemptsFinite, FewerAttempts
  <2>3. accepted[p] \in Nat /\ MAX_RETRIES * sends[p] \in Nat
    BY DeliveryAssumption DEF TypeOK
  <2>4. accepted'[p] = accepted[p] /\ sends'[p] = sends[p]
    OBVIOUS
  <2> QED
    BY <2>1, <2>2, <2>3, <2>4
<1> QED
  BY <1>3, <1>4 DEF AttemptsCounted

(* A push handed to a sender may be tried MAX_RETRIES times more.           *)
LEMMA AttemptsGranted ==
    ASSUME TypeOK, AttemptsCounted, UNCHANGED accepted, NEW s \in Senders, NEW push \in Pushes,
           \A q \in Senders \ {s} :
               stage'[q] = stage[q] /\ job'[q] = job[q] /\ attempt'[q] = attempt[q],
           stage'[s] = "prepare", job'[s] = push,
           sends' = [sends EXCEPT ![push] = @ + 1]
    PROVE  AttemptsCounted'
<1> DEFINE new == {s} \X (1 .. MAX_RETRIES)
<1>1. \A q \in Senders \ {s} : Left(q)' = Left(q)
  BY DEF Left
<1>2. \A q \in Senders : stage'[q] \in {"post", "wait"} => attempt'[q] > 0
  BY DEF AttemptsCounted
<1>3. IsFiniteSet(new) /\ Cardinality(new) = MAX_RETRIES
  <2>1. IsFiniteSet({s}) /\ Cardinality({s}) = 1
    BY FS_Singleton
  <2>2. IsFiniteSet(1 .. MAX_RETRIES) /\ Cardinality(1 .. MAX_RETRIES) = MAX_RETRIES
    BY DeliveryAssumption, FS_Interval
  <2>3. /\ IsFiniteSet(new)
        /\ Cardinality(new) = Cardinality({s}) * Cardinality(1 .. MAX_RETRIES)
    BY <2>1, <2>2, FS_Product, Zenon
  <2>4. 1 * MAX_RETRIES = MAX_RETRIES
    BY DeliveryAssumption
  <2> QED
    BY <2>1, <2>2, <2>3, <2>4, Zenon
<1>4. ASSUME NEW p \in Pushes
      PROVE  accepted'[p] + Cardinality(AttemptsLeft(p)') <= MAX_RETRIES * sends'[p]
  <2>1. accepted[p] + Cardinality(AttemptsLeft(p)) <= MAX_RETRIES * sends[p]
    BY DEF AttemptsCounted
  <2>2. Cardinality(AttemptsLeft(p)) \in Nat /\ Cardinality(AttemptsLeft(p)') \in Nat
    BY AttemptsFinite
  <2>3. /\ accepted[p] \in Nat /\ accepted'[p] = accepted[p] /\ sends[p] \in Nat
        /\ MAX_RETRIES \in Nat /\ MAX_RETRIES * sends[p] \in Nat
    BY DeliveryAssumption DEF TypeOK
  <2>4. CASE p # push
    <3>1. AttemptsLeft(p)' \subseteq AttemptsLeft(p)
      BY <1>1, <2>4 DEF AttemptsLeft
    <3>2. sends'[p] = sends[p]
      BY <2>4 DEF TypeOK
    <3> QED
      BY <2>1, <2>2, <2>3, <3>1, <3>2, FewerAttempts
  <2>5. CASE p = push
    <3>1. AttemptsLeft(p)' \subseteq AttemptsLeft(p) \cup new
      BY <1>1 DEF AttemptsLeft
    <3> HIDE DEF new
    <3>2. /\ IsFiniteSet(AttemptsLeft(p) \cup new)
          /\ Cardinality(AttemptsLeft(p) \cup new) <= Cardinality(AttemptsLeft(p)) + MAX_RETRIES
      <4>1. Cardinality(AttemptsLeft(p) \cap new) \in Nat
        BY <1>3, FS_Intersection, FS_CardinalityType
      <4>2. IsFiniteSet(AttemptsLeft(p))
        BY AttemptsFinite
      <4>3. /\ IsFiniteSet(AttemptsLeft(p) \cup new)
            /\ Cardinality(AttemptsLeft(p) \cup new) = Cardinality(AttemptsLeft(p))
                   + Cardinality(new) - Cardinality(AttemptsLeft(p) \cap new)
        BY <1>3, <4>2, FS_Union, Zenon
      <4> QED
        BY <1>3, <2>2, <2>3, <4>1, <4>3
    <3>3. Cardinality(AttemptsLeft(p)') <= Cardinality(AttemptsLeft(p)) + MAX_RETRIES
      <4>1. Cardinality(AttemptsLeft(p)') <= Cardinality(AttemptsLeft(p) \cup new)
        BY <3>1, <3>2, FS_Subset
      <4>2. Cardinality(AttemptsLeft(p) \cup new) \in Nat
        BY <3>2, FS_CardinalityType
      <4> QED
        BY <2>2, <2>3, <3>2, <4>1, <4>2
    <3>4. sends'[p] = sends[p] + 1
      BY <2>5 DEF TypeOK
    <3>5. MAX_RETRIES * sends'[p] = MAX_RETRIES * sends[p] + MAX_RETRIES
      BY <2>3, <3>4, OneMoreTime
    <3> QED
      BY <2>1, <2>2, <2>3, <3>3, <3>5
  <2> QED
    BY <2>4, <2>5
<1> QED
  BY <1>2, <1>4 DEF AttemptsCounted

(* An attempt that FCM accepts is used up.                                  *)
LEMMA AttemptUsed ==
    ASSUME TypeOK, AttemptsCounted, NEW s \in Senders, stage[s] = "post", Accept(s),
           stage' = [stage EXCEPT ![s] = "wait"], UNCHANGED <<job, attempt, sends>>
    PROVE  AttemptsCounted'
<1> DEFINE used == <<s, attempt[s]>>
<1>1. /\ attempt[s] \in 1 .. MAX_RETRIES /\ job[s] \in Pushes
      /\ stage'[s] = "wait" /\ \A q \in Senders \ {s} : stage'[q] = stage[q]
  BY DeliveryAssumption DEF TypeOK, AttemptsCounted
<1>2. \A q \in Senders \ {s} : Left(q)' = Left(q)
  BY <1>1 DEF Left
<1>3. Left(s)' \subseteq Left(s) \ {attempt[s]} /\ attempt[s] \in Left(s)
  BY <1>1, DeliveryAssumption DEF Left
<1>4. \A q \in Senders : stage'[q] \in {"post", "wait"} => attempt'[q] > 0
  BY <1>1, DeliveryAssumption DEF AttemptsCounted, TypeOK
<1>5. ASSUME NEW p \in Pushes
      PROVE  accepted'[p] + Cardinality(AttemptsLeft(p)') <= MAX_RETRIES * sends'[p]
  <2>1. accepted[p] + Cardinality(AttemptsLeft(p)) <= MAX_RETRIES * sends[p]
    BY DEF AttemptsCounted
  <2>2. Cardinality(AttemptsLeft(p)) \in Nat /\ Cardinality(AttemptsLeft(p)') \in Nat
    BY AttemptsFinite
  <2>3. accepted[p] \in Nat /\ MAX_RETRIES * sends[p] \in Nat /\ sends'[p] = sends[p]
    BY DeliveryAssumption DEF TypeOK
  <2>4. CASE p # job[s]
    <3>1. AttemptsLeft(p)' \subseteq AttemptsLeft(p)
      BY <1>2, <1>3 DEF AttemptsLeft
    <3>2. accepted'[p] = accepted[p]
      BY <2>4 DEF Accept, TypeOK
    <3> QED
      BY <2>1, <2>2, <2>3, <3>1, <3>2, FewerAttempts
  <2>5. CASE p = job[s]
    <3>1. used \in AttemptsLeft(p)
      BY <1>1, <1>3, <2>5 DEF AttemptsLeft
    <3>2. AttemptsLeft(p)' \subseteq AttemptsLeft(p) \ {used}
      BY <1>2, <1>3, <2>5 DEF AttemptsLeft
    <3> HIDE DEF used
    <3>3. /\ IsFiniteSet(AttemptsLeft(p) \ {used})
          /\ Cardinality(AttemptsLeft(p) \ {used}) = Cardinality(AttemptsLeft(p)) - 1
      BY <3>1, AttemptsFinite, FS_RemoveElement
    <3>4. Cardinality(AttemptsLeft(p)') <= Cardinality(AttemptsLeft(p)) - 1
      BY <3>2, <3>3, FS_Subset
    <3>5. accepted'[p] = accepted[p] + 1
      BY <2>5 DEF Accept, TypeOK
    <3> QED
      BY <2>1, <2>2, <2>3, <3>4, <3>5
  <2> QED
    BY <2>4, <2>5
<1> QED
  BY <1>4, <1>5 DEF AttemptsCounted

LEMMA AttemptsStep ==
    ASSUME TypeOK, ResultsKnown, AttemptsCounted, Next
    PROVE  AttemptsCounted'
<1>0. Cron \in Senders /\ Admins \subseteq Senders
  BY DEF Senders
<1>1. ASSUME NEW a \in Notifications, NextNotification(a) PROVE AttemptsCounted'
  BY <1>1 DEF NextNotification, senderVars, history, AttemptsCounted, AttemptsLeft, Left
<1>2. ASSUME NEW t \in Tokens, TakeToken(t) PROVE AttemptsCounted'
  <2>1. <<current, t>> \in Pushes /\ UNCHANGED <<attempt, accepted>>
    BY <1>2 DEF TakeToken, TypeOK, Pushes
  <2>2. \A q \in Senders \ {Cron} : stage'[q] = stage[q] /\ job'[q] = job[q]
    BY <1>2 DEF TakeToken, TypeOK
  <2>3. CASE stage' = [stage EXCEPT ![Cron] = "expo"] /\ UNCHANGED sends
    <3>1. stage'[Cron] = "expo"
      BY <1>0, <2>3 DEF TypeOK
    <3>2. Left(Cron)' = {}
      BY <3>1 DEF Left
    <3> QED
      BY <1>0, <2>1, <2>2, <2>3, <3>1, <3>2, AttemptsGivenUp
  <2>4. CASE /\ stage' = [stage EXCEPT ![Cron] = "prepare"]
             /\ sends' = [sends EXCEPT ![<<current, t>>] = @ + 1]
    <3>1. stage'[Cron] = "prepare" /\ job'[Cron] = <<current, t>>
      BY <1>0, <1>2, <2>4 DEF TakeToken, TypeOK
    <3> QED
      BY <1>0, <2>1, <2>2, <2>4, <3>1, AttemptsGranted
  <2> QED
    BY <1>2, <2>3, <2>4 DEF TakeToken
<1>3. ASSUME NEW s \in Senders, Release(s), UNCHANGED <<sends, accepted>>
      PROVE  AttemptsCounted'
  <2>1. /\ stage'[s] = "idle"
        /\ \A q \in Senders \ {s} :
              stage'[q] = stage[q] /\ job'[q] = job[q] /\ attempt'[q] = attempt[q]
    BY <1>3 DEF Release, TypeOK
  <2>2. Left(s)' = {}
    BY <2>1 DEF Left
  <2> QED
    BY <1>3, <2>1, <2>2, AttemptsGivenUp
<1>4. CASE Ends
  BY <1>0, <1>3, <1>4 DEF Ends, EndLoop, history
<1>5. ASSUME NEW s \in Senders, NEW status \in {"success", "failed", "error"}, Logs(s, status)
      PROVE  AttemptsCounted'
  BY <1>3, <1>5 DEF Logs, history
<1>6. ASSUME NEW s \in Admins, Drops(s) PROVE AttemptsCounted'
  BY <1>0, <1>3, <1>6 DEF Drops, history
<1>7. CASE Stumbles
  <2>1. /\ stage'[Cron] = "error" /\ UNCHANGED <<job, attempt, sends, accepted>>
        /\ \A q \in Senders \ {Cron} : stage'[q] = stage[q]
    BY <1>0, <1>7 DEF Stumbles, history, TypeOK
  <2>2. Left(Cron)' = {}
    BY <2>1 DEF Left
  <2> QED
    BY <1>0, <2>1, <2>2, AttemptsGivenUp
<1>8. ASSUME NEW s \in Admins, AskRetry(s) PROVE AttemptsCounted'
  <2>1. PICK row \in log : /\ job' = [job EXCEPT ![s] = row.push]
                           /\ sends' = [sends EXCEPT ![row.push] = @ + 1]
    BY <1>8 DEF AskRetry
  <2>2. row.push \in Pushes
    BY DEF TypeOK, Rows
  <2>3. /\ stage'[s] = "prepare" /\ job'[s] = row.push /\ UNCHANGED <<attempt, accepted>>
        /\ \A q \in Senders \ {s} : stage'[q] = stage[q] /\ job'[q] = job[q]
    BY <1>0, <1>8, <2>1 DEF AskRetry, TypeOK
  <2> QED
    BY <1>0, <2>1, <2>2, <2>3, AttemptsGranted
<1>9. ASSUME NEW s \in Senders, Prepare(s) \/ Post(s) \/ Answer(s)
      PROVE  AttemptsCounted'
  <2>1. UNCHANGED <<job, sends>>
    BY <1>9, SendingStep
  <2>2. attempt[s] \in 0 .. MAX_RETRIES /\ MAX_RETRIES \in Nat \ {0}
    BY DeliveryAssumption DEF TypeOK
  <2>3. ASSUME UNCHANGED accepted, NEW status, Return(s, status) PROVE AttemptsCounted'
    <3>1. /\ stage'[s] = "log" /\ UNCHANGED attempt
          /\ \A q \in Senders \ {s} : stage'[q] = stage[q]
      BY <2>3 DEF Return, TypeOK
    <3>2. Left(s)' = {}
      BY <3>1 DEF Left
    <3> QED
      BY <2>1, <2>3, <3>1, <3>2, AttemptsGivenUp
  <2>4. ASSUME UNCHANGED accepted, NEW next \in 1 .. MAX_RETRIES,
               stage' = [stage EXCEPT ![s] = "post"], attempt' = [attempt EXCEPT ![s] = next],
               \A k \in 1 .. MAX_RETRIES : k >= next => k \in Left(s)
        PROVE  AttemptsCounted'
    <3>1. /\ stage'[s] = "post" /\ attempt'[s] = next
          /\ \A q \in Senders \ {s} : stage'[q] = stage[q] /\ attempt'[q] = attempt[q]
      BY <2>4 DEF TypeOK
    <3>2. \A k \in Left(s)' : k \in Left(s)
      BY <2>4, <3>1 DEF Left
    <3>3. next > 0
      OBVIOUS
    <3> QED
      BY <2>1, <2>4, <3>1, <3>2, <3>3, AttemptsGivenUp
  <2>5. ASSUME TryAgain(s), UNCHANGED accepted, stage[s] \in {"post", "wait"}
        PROVE  AttemptsCounted'
    <3>1. CASE Return(s, "failed")
      BY <2>3, <2>5, <3>1
    <3>2. CASE /\ attempt[s] < MAX_RETRIES
               /\ stage' = [stage EXCEPT ![s] = "post"]
               /\ attempt' = [attempt EXCEPT ![s] = @ + 1]
      <4>1. attempt[s] + 1 \in 1 .. MAX_RETRIES
        BY <2>2, <3>2
      <4>2. \A k \in 1 .. MAX_RETRIES : k >= attempt[s] + 1 => k \in Left(s)
        BY <2>2, <2>5 DEF Left
      <4>3. attempt' = [attempt EXCEPT ![s] = attempt[s] + 1]
        BY <3>2
      <4> QED
        BY <2>4, <2>5, <3>2, <4>1, <4>2, <4>3
    <3> QED
      BY <2>5, <3>1, <3>2 DEF TryAgain
  <2>6. CASE Prepare(s)
    <3>1. UNCHANGED accepted /\ stage[s] = "prepare"
      BY <2>6 DEF Prepare, history
    <3>2. CASE Return(s, "failed")
      BY <2>3, <3>1, <3>2
    <3>3. CASE stage' = [stage EXCEPT ![s] = "post"] /\ attempt' = [attempt EXCEPT ![s] = 1]
      <4>1. 1 \in 1 .. MAX_RETRIES /\ \A k \in 1 .. MAX_RETRIES : k \in Left(s)
        BY <2>2, <3>1 DEF Left
      <4> QED
        BY <2>4, <3>1, <3>3, <4>1
    <3> QED
      BY <2>6, <3>2, <3>3 DEF Prepare
  <2>7. CASE Post(s)
    <3>1. stage[s] = "post"
      BY <2>7 DEF Post
    <3>2. CASE Accept(s) /\ stage' = [stage EXCEPT ![s] = "wait"] /\ UNCHANGED <<job, attempt, outcome>>
      BY <2>1, <3>1, <3>2, AttemptUsed
    <3> QED
      BY <2>3, <2>5, <2>7, <3>1, <3>2 DEF Post
  <2>8. CASE Answer(s)
    BY <2>3, <2>5, <2>8 DEF Answer
  <2> QED
    BY <1>9, <2>6, <2>7, <2>8
<1> QED
  BY <1>1, <1>2, <1>4, <1>5, <1>6, <1>7, <1>8, <1>9, StepKinds

-----------------------------------------------------------------------------
(* The inductive invariant.                                                 *)
LEMMA DeliveryStart == Init => DeliveryInv
<1> SUFFICES ASSUME Init PROVE DeliveryInv
  OBVIOUS
<1>1. SuccessWasAccepted /\ ResultsKnown /\ OneUnlogged
  BY DeliveryAssumption
     DEF Init, SuccessWasAccepted, ResultsKnown, OneUnlogged
<1>2. TakenOnce
  BY DeliveryAssumption, FS_EmptySet DEF Init, TakenOnce
<1>3. \A p \in Pushes : Open(p) = {}
  BY DEF Init, Open
<1>4. AcceptsCounted
  BY <1>3, FS_EmptySet DEF Init, AcceptsCounted
<1>5. AttemptsCounted
  <2>1. \A p \in Pushes : AttemptsLeft(p) = {}
    BY DeliveryAssumption DEF Init, AttemptsLeft, Pushes
  <2>2. \A p \in Pushes : MAX_RETRIES * sends[p] = 0 /\ accepted[p] = 0
    BY DeliveryAssumption DEF Init
  <2>3. \A s \in Senders : stage[s] = "idle"
    BY DEF Init
  <2>4. QED
    BY <2>1, <2>2, <2>3, FS_EmptySet DEF AttemptsCounted
<1>6. QED
  BY <1>1, <1>2, <1>4, <1>5 DEF DeliveryInv

(* The strengthening of the safety properties holds in every state.         *)
THEOREM DeliveryInvariant == Spec => []DeliveryInv
<1>1. TypeOK /\ DeliveryInv /\ [Next]_vars => DeliveryInv'
  <2> SUFFICES ASSUME TypeOK, DeliveryInv, [Next]_vars PROVE DeliveryInv'
    OBVIOUS
  <2>1. CASE Next
    BY <2>1, ResultsStep, TakenStep, AcceptsStep, AttemptsStep, UnloggedStep DEF DeliveryInv
  <2>2. CASE UNCHANGED vars
    BY <2>2 DEF vars, loopVars, senderVars, history, DeliveryInv, SuccessWasAccepted,
       ResultsKnown, TakenOnce, AcceptsCounted, Open, AttemptsCounted, AttemptsLeft, Left,
       OneUnlogged, Logged
  <2>3. QED
    BY <2>1, <2>2
<1>2. QED
  BY <1>1, DeliveryStart, TypeCorrect, PTL DEF Spec

(* A row that says "success" is about a push FCM accepted.                  *)
THEOREM SuccessIsTrue == Spec => []SuccessWasAccepted
<1>1. DeliveryInv => SuccessWasAccepted
  BY DEF DeliveryInv
<1>2. QED
  BY <1>1, DeliveryInvariant, PTL

(* Whatever is lost, evicted or retried, a user gets a push again only      *)
(* because an answer was lost or an administrator asked for it.             *)
THEOREM RepeatsAreExplained == Spec => []RepeatsExplained
<1>1. TypeOK /\ DeliveryInv => RepeatsExplained
  <2> SUFFICES ASSUME TypeOK, DeliveryInv, NEW p \in Pushes
               PROVE  /\ accepted[p] <= sends[p] + lost[p]
                      /\ sends[p] <= 1 + Cardinality(asked)
    BY DEF RepeatsExplained
  <2>1. Cron \in Senders /\ Cardinality(Open(p)) \in Nat
    BY OpenFinite DEF Senders
  <2>2. /\ sends[p] \in Nat /\ accepted[p] \in Nat /\ lost[p] \in Nat
        /\ Cardinality(asked) \in Nat
    BY AskedFinite DEF TypeOK
  <2>3. /\ accepted[p] + Cardinality(Open(p)) <= sends[p] + lost[p]
        /\ sends[p] <= Cardinality(asked) + (IF p \in taken THEN 1 ELSE 0)
    BY DEF DeliveryInv, AcceptsCounted, TakenOnce
  <2>4. QED
    BY <2>1, <2>2, <2>3
<1>2. QED
  BY <1>1, DeliveryInvariant, TypeCorrect, PTL

(* Whichever attempts fail, in the run or in retries of the same push, FCM   *)
(* accepts it at most MAX_RETRIES times per send.                           *)
THEOREM AttemptsAreBounded == Spec => []AttemptsBounded
<1>1. TypeOK /\ DeliveryInv => AttemptsBounded
  <2> SUFFICES ASSUME TypeOK, DeliveryInv, NEW p \in Pushes
               PROVE  accepted[p] <= MAX_RETRIES * sends[p]
    BY DEF AttemptsBounded
  <2>1. /\ Cardinality(AttemptsLeft(p)) \in Nat /\ accepted[p] \in Nat
        /\ MAX_RETRIES * sends[p] \in Nat
    BY AttemptsFinite, DeliveryAssumption DEF TypeOK
  <2>2. accepted[p] + Cardinality(AttemptsLeft(p)) <= MAX_RETRIES * sends[p]
    BY DEF DeliveryInv, AttemptsCounted
  <2>3. QED
    BY <2>1, <2>2
<1>2. QED
  BY <1>1, DeliveryInvariant, TypeCorrect, PTL

(* The run leaves at most one push without a row, however it ends.          *)
THEOREM UnloggedAtMostOne == Spec => []AtMostOneUnlogged
<1>1. TypeOK /\ DeliveryInv => AtMostOneUnlogged
  <2> SUFFICES ASSUME TypeOK, DeliveryInv PROVE AtMostOneUnlogged
    OBVIOUS
  <2> DEFINE rest == {p \in taken : ~Logged(p)}
  <2>1. OneUnlogged
    BY DEF DeliveryInv
  <2>2. rest = {} \/ \E p : rest = {p}
    BY <2>1 DEF OneUnlogged
  <2>3. Cardinality(rest) <= 1
    <3> HIDE DEF rest
    <3>1. CASE rest = {}
      BY <3>1, FS_EmptySet
    <3>2. ASSUME NEW p, rest = {p} PROVE Cardinality(rest) <= 1
      BY <3>2, FS_Singleton
    <3>3. QED
      BY <2>2, <3>1, <3>2
  <2>4. QED
    BY <2>1, <2>3 DEF OneUnlogged, AtMostOneUnlogged
<1>2. QED
  BY <1>1, DeliveryInvariant, TypeCorrect, PTL
=============================================================================
