----------------------------- MODULE SenatorAlerts -----------------------------
(***************************************************************************)
(* The alerts that follow a senate sync (TradeSync) that stored something:   *)
(* every recent trade is held against every user with an active device.      *)
(*                                                                         *)
(* Preferences, favorite stocks and follows are read from three tables, one   *)
(* after the other, for each trade and user; users change them meanwhile.    *)
(* The trades of an instance concern one stock and one senator and differ in *)
(* their type, so a user's profile is one row of each table.                 *)
(***************************************************************************)
EXTENDS Integers, Sequences, FiniteSets, SequencesExt

CONSTANTS
    Users,
    Tokens,     \* push tokens, one per device
    OldTokens,  \* those of the retired Expo format
    MaxTrades,  \* bound of the model: recent trades
    MaxEdits    \* bound of the model: changes users make during a run

VARIABLES
    trades,     \* the type of each trade of the last 24 hours, newest first
    profile,    \* per user: preferences, favorite and follow
    device,     \* per user: active tokens
    edits,      \* how many changes users have made
    moved,      \* ghost: tokens that changed hands since the run began
    st,         \* what the run awaits
    rows,       \* the users it evaluates, as the SELECT returned them
    at,         \* the indexes of the trade and of the user in hand
    saw,        \* the profile as read for them so far
    queue,      \* tokens still to push to
    handed,     \* <<trade, user, token>> handed to the sender, in order
    log,        \* <<trade, token, status>> rows of notifications_log
    failed,     \* ghost: the reads that failed for the pair in hand
    steady      \* ghost: its user's profile has not changed since its first read

people == <<profile, device, edits, moved>>
work   == <<st, rows, at, saw, queue>>
vars   == <<trades, people, work, handed, log, failed, steady>>

Types    == {"Purchase", "Sale", "Exchange"}
NoFollow == {}
Follows  == {NoFollow} \cup {{"senator"} \cup s : s \in SUBSET {"Purchase", "Sale"}}
Profiles == [on : BOOLEAN, holdingsOnly : BOOLEAN, followedOnly : BOOLEAN,
             holds : BOOLEAN, follow : Follows]

(* Preferences of a user without a row, and of one whose row was not read.   *)
DefaultProfile == [on |-> TRUE, holdingsOnly |-> FALSE, followedOnly |-> FALSE,
                   holds |-> FALSE, follow |-> NoFollow]

TypeOK ==
    /\ trades \in Seq(Types) /\ Len(trades) <= MaxTrades
    /\ profile \in [Users -> Profiles]
    /\ device \in [Users -> SUBSET Tokens]
    /\ \A u, v \in Users : u # v => device[u] \cap device[v] = {}
    /\ edits \in 0..MaxEdits
    /\ moved \subseteq Tokens
    /\ st \in {"trades", "users", "prefs", "stocks", "follows", "alert",
               "declined", "done", "send", "log", "logError", "ended"}
    /\ rows \in Seq(Users)
    /\ at \in [trade : 1..(Len(trades) + 1), user : 1..(Len(rows) + 1)]
    /\ saw \in Profiles
    /\ queue \subseteq Tokens
    /\ handed \in Seq((1..Len(trades)) \X Users \X (Tokens \ OldTokens))
    /\ \A l \in log : \E i \in DOMAIN handed :
          l[1] = handed[i][1] /\ l[2] = handed[i][3] /\ l[3] \in {"success", "error"}
    /\ failed \subseteq {"prefs", "stocks", "follows"}
    /\ steady \in BOOLEAN

Init ==
    /\ trades \in UNION {[1..n -> Types] : n \in 0..MaxTrades}
    /\ profile \in [Users -> Profiles]
    /\ device \in {d \in [Users -> SUBSET Tokens] :
                     \A u, v \in Users : u # v => d[u] \cap d[v] = {}}
    /\ edits = 0
    /\ moved = {}
    /\ st = "trades"
    /\ rows = <<>>
    /\ at = [trade |-> 1, user |-> 1]
    /\ saw = DefaultProfile
    /\ queue = {}
    /\ handed = <<>>
    /\ log = {}
    /\ failed = {}
    /\ steady = TRUE
-----------------------------------------------------------------------------
InHand(u) ==
    st \in {"stocks", "follows", "alert", "declined"} /\ rows[at.user] = u

(* A user changes the favorites or a follow.  The request for the preferences *)
(* leaves the columns of the senator alerts as they are.                      *)
EditProfile ==
    /\ edits < MaxEdits
    /\ \E u \in Users, p \in Profiles :
          /\ \/ p = [profile[u] EXCEPT !.holds = p.holds]
             \/ p = [profile[u] EXCEPT !.follow = p.follow]
          /\ profile' = [profile EXCEPT ![u] = p]
          /\ steady' = (steady /\ ~InHand(u))
    /\ edits' = edits + 1
    /\ UNCHANGED <<trades, device, moved, work, handed, log, failed>>

(* A registration gives a token to another user, or a delete to nobody.      *)
MoveToken ==
    /\ edits < MaxEdits
    /\ \E t \in Tokens, owner \in [Users -> BOOLEAN] :
          /\ Cardinality({u \in Users : owner[u]}) <= 1
          /\ device' = [u \in Users |-> IF owner[u] THEN device[u] \cup {t}
                                                    ELSE device[u] \ {t}]
          /\ moved' = IF device' = device THEN moved ELSE moved \cup {t}
    /\ edits' = edits + 1
    /\ UNCHANGED <<trades, profile, work, handed, log, failed, steady>>
-----------------------------------------------------------------------------
(* Mutant: the join gives a row per device. *)
UserRowsJoined ==
    LET pairs == SetToSeq({p \in Users \X Tokens : p[2] \in device[p[1]]})
    IN  [i \in DOMAIN pairs |-> pairs[i][1]]

(* SELECT DISTINCT over users, devices and tokens: a row per user. *)
UserRows == SetToSeq({u \in Users : device[u] # {}})

SelectTrades ==
    /\ st = "trades"
    /\ st' = "users"
    /\ UNCHANGED <<trades, people, rows, at, saw, queue, handed, log, failed, steady>>

(* The first read of a pair, or the end of the loop over all of them. *)
Begin(a, n) == IF a.trade <= Len(trades) /\ n > 0 THEN "prefs" ELSE "ended"

SelectUsers ==
    /\ st = "users"
    /\ rows' = UserRows
    /\ st' = Begin(at, Len(UserRows))
    /\ UNCHANGED <<trades, people, at, saw, queue, handed, log, failed, steady>>

SelectFails ==
    /\ st \in {"trades", "users"}
    /\ st' = "ended"
    /\ UNCHANGED <<trades, people, rows, at, saw, queue, handed, log, failed, steady>>

Trade == trades[at.trade]
User  == rows[at.user]

(* A failed read of the preferences gives the defaults: alerts on. *)
ReadPreferences(ok) ==
    /\ st = "prefs"
    /\ saw' = IF ok THEN [profile[User] EXCEPT !.holds = FALSE, !.follow = NoFollow]
              ELSE DefaultProfile
    /\ failed' = IF ok THEN {} ELSE {"prefs"}
    /\ st' = IF saw'.on THEN "stocks" ELSE "declined"
    /\ steady' = TRUE
    /\ UNCHANGED <<trades, people, rows, at, queue, handed, log>>

(* A failed read of the favorites gives none. *)
ReadStocks(ok) ==
    /\ st = "stocks"
    /\ saw' = [saw EXCEPT !.holds = ok /\ profile[User].holds]
    /\ failed' = IF ok THEN failed ELSE failed \cup {"stocks"}
    /\ st' = "follows"
    /\ UNCHANGED <<trades, people, rows, at, queue, handed, log, steady>>

TypeAsked(follow, type) == follow # NoFollow => type = "Exchange" \/ type \in follow

(* Mutant: the types of a follow are not looked at. *)
ShouldAlertAnyType(p, type) ==
    /\ p.holdingsOnly => p.holds
    /\ p.followedOnly => p.follow # NoFollow
    /\ p.holds \/ p.follow # NoFollow

ShouldAlert(p, type) ==
    /\ TypeAsked(p.follow, type)
    /\ p.holdingsOnly => p.holds
    /\ p.followedOnly => p.follow # NoFollow
    /\ p.holds \/ p.follow # NoFollow

ReadFollows ==
    /\ st = "follows"
    /\ saw' = [saw EXCEPT !.follow = profile[User].follow]
    /\ st' = IF ShouldAlert(saw', Trade) THEN "alert" ELSE "declined"
    /\ UNCHANGED <<trades, people, rows, at, queue, handed, log, failed, steady>>

(* A failed read of the follows is no alert. *)
ReadFollowsFails ==
    /\ st = "follows"
    /\ failed' = failed \cup {"follows"}
    /\ st' = "declined"
    /\ UNCHANGED <<trades, people, rows, at, saw, queue, handed, log, steady>>

(* The user's tokens, selected once the alert is decided. *)
SelectTokens ==
    /\ st = "alert"
    /\ queue' = device[User]
    /\ st' = IF queue' = {} THEN "done" ELSE "send"
    /\ UNCHANGED <<trades, people, rows, at, saw, handed, log, failed, steady>>

SelectTokensFails ==
    /\ st = "alert"
    /\ st' = "done"
    /\ UNCHANGED <<trades, people, rows, at, saw, queue, handed, log, failed, steady>>

More(q) == IF q = {} THEN "done" ELSE "send"

SkipOldToken ==
    /\ st = "send"
    /\ \E t \in queue \cap OldTokens :
          /\ queue' = queue \ {t}
          /\ st' = More(queue')
    /\ UNCHANGED <<trades, people, rows, at, saw, handed, log, failed, steady>>

(* sendFCMNotification answers, or throws and leaves no row in the log. *)
Send ==
    /\ st = "send"
    /\ \E t \in queue \ OldTokens :
          /\ queue' = queue \ {t}
          /\ handed' = Append(handed, <<at.trade, User, t>>)
          /\ st' \in {"log", "logError", More(queue')}
    /\ UNCHANGED <<trades, people, rows, at, saw, log, failed, steady>>

Log ==
    /\ st \in {"log", "logError"}
    /\ LET done == handed[Len(handed)]
       IN  log' = log \cup {<<done[1], done[3], IF st = "log" THEN "success" ELSE "error">>}
    /\ st' = More(queue)
    /\ UNCHANGED <<trades, people, rows, at, saw, queue, handed, failed, steady>>

LogFails ==
    /\ st \in {"log", "logError"}
    /\ st' = More(queue)
    /\ UNCHANGED <<trades, people, rows, at, saw, queue, handed, log, failed, steady>>

(* The next user, or the next trade and the first user. *)
NextPair ==
    /\ st \in {"declined", "done"}
    /\ at' = IF at.user < Len(rows) THEN [at EXCEPT !.user = @ + 1]
             ELSE [trade |-> at.trade + 1, user |-> 1]
    /\ st' = Begin(at', Len(rows))
    /\ UNCHANGED <<trades, people, rows, saw, queue, handed, log, failed, steady>>

Evaluate ==
    \/ SelectTrades \/ SelectUsers \/ SelectFails
    \/ \E ok \in BOOLEAN : ReadPreferences(ok) \/ ReadStocks(ok)
    \/ ReadFollows \/ ReadFollowsFails
    \/ SelectTokens \/ SelectTokensFails \/ SkipOldToken \/ Send \/ Log \/ LogFails
    \/ NextPair

Next == EditProfile \/ MoveToken \/ Evaluate

Spec == Init /\ [][Next]_vars
-----------------------------------------------------------------------------
(* The wish of a user as the documentation of the alerts and the comment in   *)
(* shouldAlertUser state it: a trade in a stock the user holds, "regardless   *)
(* of follow status", or of a type asked for by a senator the user follows,   *)
(* within what the preferences let through.                                  *)
Wants(p, type) ==
    /\ p.on
    /\ p.holds \/ (p.follow # NoFollow /\ TypeAsked(p.follow, type))
    /\ p.holdingsOnly => p.holds
    /\ p.followedOnly => p.follow # NoFollow

(* Against that comment and senate-trading-api.md ("A senator trades in a      *)
(* stock that the user holds"), a trade in a stock the user holds is declined *)
(* when its type is turned off in a follow of the senator: the follow takes  *)
(* away an alert the user would get without it.                              *)
TypeSilenced(p, type) == p.holds /\ ~TypeAsked(p.follow, type)

(* Three reads and three filters amount to the user's wish: a user whose     *)
(* profile did not change while a trade was held against it is alerted only  *)
(* when it wants that trade, and declined only when it does not, save for the *)
(* one departure of the code from its documents; failed reads may lose an     *)
(* alert, and only the one of the preferences may cause one, never for a      *)
(* trade that has nothing to do with the user.                               *)
AlertsWanted ==
    steady =>
       /\ st = "alert" =>
             /\ "prefs" \notin failed => Wants(profile[User], Trade)
             /\ profile[User].holds \/ profile[User].follow # NoFollow
       /\ st = "declined" /\ failed = {} =>
             ~Wants(profile[User], Trade) \/ TypeSilenced(profile[User], Trade)

(* Within a run a token gets an alert about a trade once, though a user has   *)
(* several devices: again only for another user, to whom it has moved since  *)
(* the run began.                                                            *)
OncePerRun ==
    \A i, j \in DOMAIN handed :
        handed[i][1] = handed[j][1] /\ handed[i][3] = handed[j][3]
        => i = j \/ (handed[i][2] # handed[j][2] /\ handed[i][3] \in moved)
=============================================================================
