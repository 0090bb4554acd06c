------------------------------ MODULE NewsAlerts ------------------------------
(***************************************************************************)
(* The news alert job: today's articles about the symbols readers have among *)
(* their favorites are pushed to them, once.                                 *)
(*                                                                         *)
(* A mark in KV, put before the tokens are selected and the pushes are sent, *)
(* keeps a later run from sending an article again.  The job runs every six  *)
(* hours, one run at a time; a run can be cut off between any two awaits.    *)
(* A reader stands for one active device of a user.                          *)
(***************************************************************************)
EXTENDS Integers, Sequences, FiniteSets, SequencesExt, Filtering

CONSTANTS
    Readers,
    Symbols,
    Articles,
    SymbolOf,   \* the symbol of an article
    OldDates,   \* articles dated another day
    BadDates,   \* articles whose date cannot be parsed
    MaxFeed,    \* bound of the model: articles in an answer of the provider
    MaxRuns,    \* bound of the model: runs of the job
    MaxEdits    \* bound of the model: changes of favorites and devices

VARIABLES
    likes,      \* per symbol: the readers with it among their favorites
    active,     \* readers whose device is active
    edits,      \* changes of the two above
    marks,      \* the articles with a mark in KV
    runs,       \* runs begun
    st,         \* what the run awaits
    found,      \* per symbol: the readers the run found
    todo,       \* the articles left, grouped by symbol
    queue,      \* readers left to push the article in hand to
    handed,     \* <<article, reader>> handed to the sender, in order
    owed,       \* ghost: <<article, reader>> a mark was put for
    excused     \* ghost: articles whose run failed or was cut at the mark or after it

world == <<likes, active, edits>>
work  == <<st, found, todo, queue>>
vars  == <<world, marks, runs, work, handed, owed, excused>>

Nobody == [s \in Symbols |-> {}]

TypeOK ==
    /\ likes \in [Symbols -> SUBSET Readers]
    /\ active \subseteq Readers
    /\ edits \in 0..MaxEdits
    /\ marks \subseteq Articles \ (OldDates \cup BadDates)
    /\ runs \in 0..MaxRuns
    /\ st \in {"idle", "settings", "fetch", "get", "put", "tokens", "send"}
    /\ found \in [Symbols -> SUBSET Readers]
    /\ todo \in Seq(Articles)
    /\ \A i, j, k \in DOMAIN todo : i < j /\ j < k /\ SymbolOf[todo[i]] = SymbolOf[todo[k]]
          => SymbolOf[todo[j]] = SymbolOf[todo[i]]
    /\ st \in {"put", "tokens", "send"} => todo # <<>>
    /\ queue \subseteq Readers
    /\ handed \in Seq(marks \X Readers)
    /\ owed \subseteq marks \X Readers
    /\ excused \subseteq marks

Init ==
    /\ likes \in [Symbols -> SUBSET Readers]
    /\ active \in SUBSET Readers
    /\ edits = 0
    /\ marks = {}
    /\ runs = 0
    /\ st = "idle"
    /\ found = Nobody
    /\ todo = <<>>
    /\ queue = {}
    /\ handed = <<>>
    /\ owed = {}
    /\ excused = {}
-----------------------------------------------------------------------------
Edit ==
    /\ edits < MaxEdits
    /\ edits' = edits + 1
    /\ UNCHANGED <<marks, runs, work, handed, owed, excused>>

EditLikes ==
    /\ \E s \in Symbols, S \in SUBSET Readers : likes' = [likes EXCEPT ![s] = S]
    /\ UNCHANGED active
    /\ Edit

EditDevices ==
    /\ active' \in SUBSET Readers
    /\ UNCHANGED likes
    /\ Edit
-----------------------------------------------------------------------------
(* The end of a run: the article in hand, if any, is over. *)
End ==
    /\ st' = "idle"
    /\ found' = Nobody
    /\ todo' = <<>>
    /\ queue' = {}

Start ==
    /\ st = "idle" /\ runs < MaxRuns
    /\ st' = "settings"
    /\ runs' = runs + 1
    /\ UNCHANGED <<world, marks, found, todo, queue, handed, owed, excused>>

(* The favorites of all users; without any the run is over. *)
SelectSettings ==
    /\ st = "settings"
    /\ IF likes = Nobody THEN End
       ELSE /\ st' = "fetch"
            /\ found' = likes
            /\ UNCHANGED <<todo, queue>>
    /\ UNCHANGED <<world, marks, runs, handed, owed, excused>>

(* One call for all symbols, whose answer may name an article twice; what is  *)
(* not about a symbol found is dropped, the rest grouped by symbol.          *)
Answers == UNION {[1..n -> Articles] : n \in 0..MaxFeed}

About(answer, s) == Kept(answer, {a \in Articles : SymbolOf[a] = s /\ found[s] # {}})

Grouped(answer) ==
    LET symbols == SetToSeq(Symbols)
    IN  FlattenSeq([i \in DOMAIN symbols |-> About(answer, symbols[i])])

Fetch ==
    /\ st = "fetch"
    /\ \E answer \in Answers : todo' = Grouped(answer)
    /\ st' = "get"
    /\ UNCHANGED <<world, marks, runs, found, queue, handed, owed, excused>>

(* The SELECT throws, or the provider answers an error or not an array. *)
FetchFails ==
    /\ st \in {"settings", "fetch"}
    /\ End
    /\ UNCHANGED <<world, marks, runs, handed, owed, excused>>

Article == Head(todo)

(* The next article; after an error, the first one of the next symbol. *)
NextArticle == todo' = Tail(todo) /\ st' = "get"

NextSymbol ==
    /\ todo' = Kept(todo, {a \in Articles : SymbolOf[a] # SymbolOf[Article]})
    /\ st' = "get"

(* The date is parsed before the mark is looked up; one that cannot be parsed *)
(* throws, and with it go the other articles about the symbol.               *)
GetMark ==
    /\ st = "get" /\ todo # <<>>
    /\ IF Article \in BadDates THEN NextSymbol
       ELSE IF Article \in OldDates \cup marks THEN NextArticle
       ELSE st' = "put" /\ UNCHANGED todo
    /\ UNCHANGED <<world, marks, runs, found, queue, handed, owed, excused>>

(* KV or the database fails: the rest of the symbol is skipped. *)
StepFails ==
    /\ \/ st = "get" /\ todo # <<>>
       \/ st \in {"put", "tokens"}
    /\ NextSymbol
    /\ excused' = IF st = "tokens" THEN excused \cup {Article} ELSE excused
    /\ UNCHANGED <<world, marks, runs, found, queue, handed, owed>>

Mark ==
    /\ st = "put"
    /\ marks' = marks \cup {Article}
    /\ owed' = owed \cup {<<Article, u>> : u \in found[SymbolOf[Article]]}

PutMark ==
    /\ Mark
    /\ st' = "tokens"
    /\ UNCHANGED <<world, runs, found, todo, queue, handed, excused>>

(* KV applies the put, but it throws, or the run is cut off while it awaits it. *)
PutUnseen ==
    /\ Mark
    /\ excused' = excused \cup {Article}
    /\ \/ NextSymbol /\ UNCHANGED <<found, queue>>
       \/ End
    /\ UNCHANGED <<world, runs, handed>>

SelectTokens ==
    /\ st = "tokens"
    /\ queue' = found[SymbolOf[Article]] \cap active
    /\ owed' = {o \in owed : o[1] = Article => o[2] \in queue'}
    /\ IF queue' = {} THEN NextArticle ELSE st' = "send" /\ UNCHANGED todo
    /\ UNCHANGED <<world, marks, runs, found, handed, excused>>

(* Mutant: a push that throws ends the article. *)
SendAborting ==
    /\ st = "send"
    /\ \E u \in queue : handed' = Append(handed, <<Article, u>>)
    /\ queue' = {}
    /\ NextArticle
    /\ UNCHANGED <<world, marks, runs, found, owed, excused>>

(* A push that throws is logged, and the next one is sent. *)
Send ==
    /\ st = "send"
    /\ \E u \in queue :
          /\ handed' = Append(handed, <<Article, u>>)
          /\ queue' = queue \ {u}
          /\ IF queue' = {} THEN NextArticle ELSE UNCHANGED <<st, todo>>
    /\ UNCHANGED <<world, marks, runs, found, owed, excused>>

Finish ==
    /\ st = "get" /\ todo = <<>>
    /\ End
    /\ UNCHANGED <<world, marks, runs, handed, owed, excused>>

(* The runtime ends the run at an await. *)
CutOff ==
    /\ st # "idle"
    /\ excused' = IF st \in {"tokens", "send"} THEN excused \cup {Article} ELSE excused
    /\ End
    /\ UNCHANGED <<world, marks, runs, handed, owed>>

Run ==
    \/ Start \/ SelectSettings \/ Fetch \/ FetchFails \/ GetMark \/ StepFails
    \/ PutMark \/ SelectTokens \/ Send \/ Finish

Next == EditLikes \/ EditDevices \/ Run \/ PutUnseen \/ CutOff

Spec == Init /\ [][Next]_vars
-----------------------------------------------------------------------------
(* NEWS_ALERT_CRON.md: "Never sends the same notification twice".  Whatever   *)
(* fails or is cut off, no reader is pushed an article a second time by a    *)
(* later run, nor by the same run when the provider lists it twice.          *)
HandedOnce ==
    \A i, j \in DOMAIN handed : handed[i] = handed[j] => i = j

(* A mark is never taken back, so what it hides is lost: once the run is past *)
(* an article, every reader found for it whose device was active has been    *)
(* handed it, unless the put of the mark threw although it was applied, the   *)
(* SELECT of the tokens failed, or the run was cut off between the mark and   *)
(* the last push.                                                            *)
LossExplained ==
    \A o \in owed :
        \/ o \in {handed[i] : i \in DOMAIN handed}
        \/ o[1] \in excused
        \/ st \in {"tokens", "send"} /\ o[1] = Article
=============================================================================
