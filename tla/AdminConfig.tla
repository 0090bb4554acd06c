------------------------------ MODULE AdminConfig ------------------------------
(***************************************************************************)
(* The administrators' configuration: one value in KV and a copy in the      *)
(* memory of every isolate, trusted for a minute.                            *)
(*                                                                         *)
(* getConfig answers from the copy or awaits KV and replaces the copy;       *)
(* updateConfig merges its fields into what getConfig answers, awaits the    *)
(* put, and replaces the copy.  Requests of one isolate interleave at the    *)
(* awaits.  Outside working hours, by the configuration merged into, the put *)
(* is skipped.  KV is taken to answer the last value put.                    *)
(***************************************************************************)
EXTENDS Integers

CONSTANTS
    Isolates,
    Clients,
    CacheTtl,   \* ticks a copy is trusted
    None,       \* no copy
    MaxTime,    \* bound of the model: ticks
    MaxUpdates  \* bound of the model: updates begun

VARIABLES
    stored,     \* the configuration in KV; nothing in KV reads as the default
    lastIn,     \* ghost, per configuration: when it was last overwritten in KV
    now,        \* the clock
    closed,     \* the hour is outside the working hours
    updates,    \* updates begun
    cache,      \* per isolate: its copy
    req         \* per client: its request

vars == <<stored, lastIn, now, closed, updates, cache, req>>

(* A group of settings, changed or not, and the working hours, on or off.    *)
Fields  == {"flags", "hoursOff"}
Configs == [Fields -> BOOLEAN]
Default == [f \in Fields |-> FALSE]

(* Where a copy comes from: read in KV, put there, put skipped, read failed. *)
Sources == {"read", "put", "skipped", "failed"}
Copies  == [val : Configs, at : 0..MaxTime, from : Sources, asked : 0..MaxTime]

Changes == [field : Fields, to : BOOLEAN]

Idle  == [st |-> "idle"]
Reads == [st : {"read"}, home : Isolates, change : {None} \cup Changes, asked : 0..MaxTime]
Puts  == [st : {"put", "skip", "cache"}, home : Isolates, val : Configs, asked : 0..MaxTime]

TypeOK ==
    /\ stored \in Configs
    /\ lastIn \in [Configs -> -1..MaxTime]
    /\ now \in 0..MaxTime
    /\ closed \in BOOLEAN
    /\ updates \in 0..MaxUpdates
    /\ cache \in [Isolates -> Copies \cup {None}]
    /\ req \in [Clients -> {Idle} \cup Reads \cup Puts]

Init ==
    /\ stored = Default
    /\ lastIn = [v \in Configs |-> -1]
    /\ now = 0
    /\ closed \in BOOLEAN
    /\ updates = 0
    /\ cache = [i \in Isolates |-> None]
    /\ req = [c \in Clients |-> Idle]
-----------------------------------------------------------------------------
Tick ==
    /\ now < MaxTime
    /\ now' = now + 1
    /\ UNCHANGED <<stored, lastIn, closed, updates, cache, req>>

Turn ==
    /\ closed' = ~closed
    /\ UNCHANGED <<stored, lastIn, now, updates, cache, req>>

(* The isolate is discarded, its requests with it. *)
Evict(i) ==
    /\ cache' = [cache EXCEPT ![i] = None]
    /\ req' = [c \in Clients |->
                 IF req[c].st # "idle" /\ req[c].home = i THEN Idle ELSE req[c]]
    /\ UNCHANGED <<stored, lastIn, now, closed, updates>>
-----------------------------------------------------------------------------
Trusted(i) == cache[i] # None /\ now - cache[i].at < CacheTtl

(* The put is skipped by the hours of the configuration merged into. *)
shouldSkipKvOperations(config) == closed /\ ~config["hoursOff"]

Merge(i, base, change) ==
    [st    |-> IF shouldSkipKvOperations(base) THEN "skip" ELSE "put",
     home  |-> i,
     val   |-> [base EXCEPT ![change.field] = change.to],
     asked |-> now]

(* getConfig with a copy that is not trusted (any more). *)
Get(c, i) ==
    /\ req[c] = Idle
    /\ ~Trusted(i)
    /\ req' = [req EXCEPT ![c] = [st |-> "read", home |-> i, change |-> None, asked |-> now]]
    /\ UNCHANGED <<stored, lastIn, now, closed, updates, cache>>

(* updateConfig, also that of the endpoints that set one feature flag. *)
Update(c, i, change) ==
    /\ req[c] = Idle
    /\ updates < MaxUpdates
    /\ updates' = updates + 1
    /\ req' = [req EXCEPT ![c] =
                 IF Trusted(i) THEN Merge(i, cache[i].val, change)
                 ELSE [st |-> "read", home |-> i, change |-> change, asked |-> now]]
    /\ UNCHANGED <<stored, lastIn, now, closed, cache>>

(* The copy replaced by an answer of KV, dated when KV was asked.            *)
Fill(c, val, from) ==
    LET i == req[c].home
    IN  /\ cache' = [cache EXCEPT ![i] = [val |-> val, at |-> req[c].asked,
                                          from |-> from, asked |-> req[c].asked]]
        /\ req' = [req EXCEPT ![c] = IF @.change = None THEN Idle
                                     ELSE Merge(i, val, @.change)]
        /\ UNCHANGED <<stored, lastIn, now, closed, updates>>

ReadStored(c) == req[c].st = "read" /\ Fill(c, stored, "read")

(* A read that fails is answered, cached and merged into as the default.     *)
ReadFails(c) == req[c].st = "read" /\ Fill(c, Default, "failed")

Store(val) ==
    /\ stored' = val
    /\ lastIn' = IF val = stored THEN lastIn ELSE [lastIn EXCEPT ![stored] = now]

Put(c) ==
    /\ req[c].st = "put"
    /\ Store(req[c].val)
    /\ req' = [req EXCEPT ![c].st = "cache"]
    /\ UNCHANGED <<now, closed, updates, cache>>

(* Mutant: a put that throws is not noticed. *)
PutFailsUnnoticed(c) ==
    /\ req[c].st = "put"
    /\ req' = [req EXCEPT ![c].st = "cache"]
    /\ UNCHANGED <<stored, lastIn, now, closed, updates, cache>>

(* The put throws, applied or not: no copy is kept. *)
PutFails(c) ==
    /\ req[c].st = "put"
    /\ Store(req[c].val) \/ UNCHANGED <<stored, lastIn>>
    /\ cache' = [cache EXCEPT ![req[c].home] = None]
    /\ req' = [req EXCEPT ![c] = Idle]
    /\ UNCHANGED <<now, closed, updates>>

(* After the put, skipped or not, the copy is the configuration merged.      *)
CacheUpdate(c) ==
    /\ req[c].st \in {"cache", "skip"}
    /\ cache' = [cache EXCEPT ![req[c].home] =
                   [val |-> req[c].val, at |-> now, asked |-> req[c].asked,
                    from |-> IF req[c].st = "cache" THEN "put" ELSE "skipped"]]
    /\ req' = [req EXCEPT ![c] = Idle]
    /\ UNCHANGED <<stored, lastIn, now, closed, updates>>

Next ==
    \/ Tick \/ Turn
    \/ \E i \in Isolates : Evict(i)
    \/ \E c \in Clients :
          \/ \E i \in Isolates :
                \/ Get(c, i)
                \/ \E change \in Changes : Update(c, i, change)
          \/ ReadStored(c) \/ ReadFails(c) \/ Put(c) \/ PutFails(c) \/ CacheUpdate(c)

Spec == Init /\ [][Next]_vars
-----------------------------------------------------------------------------
InKvSince(val, t) == stored = val \/ lastIn[val] >= t

(* How old an answer can be: a copy read from KV was there no earlier than it *)
(* is dated, so it is at most a minute out of date when it is served; a copy *)
(* left by an update was there since the update asked; only a failed read or *)
(* a skipped put leaves an isolate with a configuration KV does not have.    *)
ServedIsRecent ==
    \A i \in Isolates :
        cache[i] # None =>
            /\ cache[i].from = "read" => InKvSince(cache[i].val, cache[i].at)
            /\ cache[i].from = "put" => InKvSince(cache[i].val, cache[i].asked)
=============================================================================
