---------------------------- MODULE RequestProofs ----------------------------
(***************************************************************************)
(* The invariants of the parts of Background that answer requests: the       *)
(* configuration, the selection of datalakes, the market lists, the quotes.  *)
(* Each is inductive for any isolates, clients, clock and bounds.            *)
(***************************************************************************)
EXTENDS Background, FiniteSetTheorems, TLAPS

-----------------------------------------------------------------------------
(* The configuration (AdminConfig).  A copy, and an update past its put, is  *)
(* dated in the past, and what it holds was in KV at that date or later,     *)
(* which later puts do not change: they date what they overwrite.            *)
ConfigPast ==
    /\ \A i \in Isolates : cache[i] # None => cache[i].at <= now /\ cache[i].asked <= now
    /\ \A c \in Clients : req[c].st # "idle" => req[c].asked <= now

ConfigPutsKnown == \A c \in Clients : req[c].st = "cache" => Config!InKvSince(req[c].val,
       req[c].asked)

ConfigInv ==
    /\ MaxTime \in Nat /\ Config!TypeOK
    /\ ConfigPast /\ ConfigPutsKnown /\ Config!ServedIsRecent
-----------------------------------------------------------------------------
(* A request is idle, awaits KV, or has a configuration to put or to keep.    *)
LEMMA ConfigShapes ==
    ASSUME Config!TypeOK, NEW c \in Clients
    PROVE  /\ req[c].st = "read" => req[c] \in Config!Reads
           /\ req[c].st \in {"put", "skip", "cache"} => req[c] \in Config!Puts
           /\ req[c].st # "idle" => req[c] \in Config!Reads \cup Config!Puts
<1>1. req[c] \in {Config!Idle} \cup Config!Reads \cup Config!Puts
  BY DEF Config!TypeOK
<1>2. Config!Idle.st = "idle"
  BY DEF Config!Idle
<1>3. \A r \in Config!Reads : r.st = "read"
  BY DEF Config!Reads
<1>4. \A r \in Config!Puts : r.st \in {"put", "skip", "cache"}
  BY DEF Config!Puts
<1> QED
  BY <1>1, <1>2, <1>3, <1>4

(* What was in KV since some time in the past still was after another put.   *)
LEMMA ConfigStoreKeeps ==
    ASSUME Config!TypeOK, NEW v \in Config!Configs, NEW w \in Config!Configs, NEW t \in Int,
           t <= now,
           Config!InKvSince(v, t), Config!Store(w)
    PROVE  Config!InKvSince(v, t)'
<1>1. CASE w = stored
  BY <1>1 DEF Config!Store, Config!InKvSince
<1>2. CASE w # stored
  <2>1. lastIn' = [lastIn EXCEPT ![stored] = now] /\ lastIn \in [Config!Configs -> -1..MaxTime]
    BY <1>2 DEF Config!Store, Config!TypeOK
  <2>2. CASE v = stored
    BY <2>1, <2>2 DEF Config!InKvSince
  <2>3. CASE v # stored
    BY <2>1, <2>3 DEF Config!InKvSince
  <2> QED
    BY <2>2, <2>3
<1> QED
  BY <1>1, <1>2

(* Types after a put.                                                        *)
LEMMA ConfigStoreTyped ==
    ASSUME MaxTime \in Nat, Config!TypeOK, NEW w \in Config!Configs, Config!Store(w)
    PROVE  stored' \in Config!Configs /\ lastIn' \in [Config!Configs -> -1..MaxTime]
<1>1. now \in -1..MaxTime
  BY DEF Config!TypeOK
<1> QED
  BY <1>1 DEF Config!Store, Config!TypeOK

(* The configuration merged, and the request that puts it.                   *)
LEMMA ConfigMergeTyped ==
    ASSUME Config!TypeOK, NEW i \in Isolates, NEW base \in Config!Configs,
           NEW change \in Config!Changes
    PROVE  Config!Merge(i, base, change) \in Config!Puts /\ Config!Merge(i, base,
           change).asked = now
           /\ Config!Merge(i, base, change).st # "cache"
<1>1. [base EXCEPT ![change.field] = change.to] \in Config!Configs
  BY DEF Config!Configs, Config!Changes
<1>2. now \in 0..MaxTime
  BY DEF Config!TypeOK
<1> QED
  BY <1>1, <1>2 DEF Config!Merge, Config!Puts

(* KV and the copies stay, and one request becomes one asked now, or idle.    *)
LEMMA ConfigRequestKeeps ==
    ASSUME ConfigInv, NEW c \in Clients,
           NEW r \in {Config!Idle} \cup Config!Reads \cup Config!Puts,
           r.st # "idle" => r.asked = now, r.st # "cache",
           req' = [req EXCEPT ![c] = r],
           updates' \in 0..MaxUpdates, UNCHANGED <<stored, lastIn, now, closed, cache>>
    PROVE  ConfigInv'
<1>1. Config!TypeOK'
  BY DEF ConfigInv, Config!TypeOK
<1>2. \A d \in Clients : req'[d] = IF d = c THEN r ELSE req[d]
  BY DEF ConfigInv, Config!TypeOK
<1>3. now \in Int
  BY DEF ConfigInv, Config!TypeOK
<1>4. ConfigPast'
  BY <1>2, <1>3 DEF ConfigInv, ConfigPast
<1>5. ConfigPutsKnown'
  BY <1>2 DEF ConfigInv, ConfigPutsKnown, Config!InKvSince
<1>6. Config!ServedIsRecent'
  BY DEF ConfigInv, Config!ServedIsRecent, Config!InKvSince
<1> QED
  BY <1>1, <1>4, <1>5, <1>6 DEF ConfigInv
-----------------------------------------------------------------------------
(* The default is in KV and no isolate has a copy.                           *)
LEMMA ConfigInitially == ASSUME MaxTime \in Nat, Config!Init, MaxUpdates \in Nat PROVE ConfigInv
<1>1. Config!Default \in Config!Configs
  BY DEF Config!Default, Config!Configs
<1>2. Config!TypeOK
  BY <1>1 DEF Config!Init, Config!TypeOK
<1>3. ConfigPast /\ ConfigPutsKnown
  BY DEF Config!Init, ConfigPast, ConfigPutsKnown, Config!Idle
<1>4. Config!ServedIsRecent
  BY DEF Config!Init, Config!ServedIsRecent
<1> QED
  BY <1>2, <1>3, <1>4 DEF ConfigInv

(* The clock and the hours; a discarded isolate.                             *)
LEMMA ConfigWorldKeeps ==
    ASSUME ConfigInv, Config!Tick \/ Config!Turn \/ \E i \in Isolates : Config!Evict(i)
    PROVE  ConfigInv'
<1>1. now \in Nat /\ now \in 0..MaxTime /\ MaxTime \in Nat
  BY DEF ConfigInv, Config!TypeOK
<1>2. CASE Config!Tick
  <2>1. now' = now + 1 /\ now' \in 0..MaxTime
    BY <1>1, <1>2 DEF Config!Tick
  <2>2. Config!TypeOK'
    BY <1>2, <2>1 DEF Config!Tick, ConfigInv, Config!TypeOK
  <2>3. ASSUME NEW i \in Isolates, cache[i] # None
        PROVE  cache[i].at <= now' /\ cache[i].asked <= now'
    <3>1. cache[i] \in Config!Copies
      BY <2>3 DEF ConfigInv, Config!TypeOK
    <3>2. cache[i].at \in Nat /\ cache[i].asked \in Nat
      BY <1>1, <3>1 DEF Config!Copies
    <3>3. cache[i].at <= now /\ cache[i].asked <= now
      BY <2>3 DEF ConfigInv, ConfigPast
    <3> QED
      BY <1>1, <2>1, <3>2, <3>3
  <2>4. ASSUME NEW c \in Clients, req[c].st # "idle"
        PROVE  req[c].asked <= now'
    <3>1. req[c] \in Config!Reads \cup Config!Puts
      BY <2>4, ConfigShapes DEF ConfigInv
    <3>2. req[c].asked \in Nat
      BY <1>1, <3>1 DEF Config!Reads, Config!Puts
    <3>3. req[c].asked <= now
      BY <2>4 DEF ConfigInv, ConfigPast
    <3> QED
      BY <1>1, <2>1, <3>2, <3>3
  <2>5. ConfigPast'
    BY <1>2, <2>3, <2>4 DEF Config!Tick, ConfigPast
  <2> QED
    BY <1>2, <2>2, <2>5 DEF Config!Tick, ConfigInv, ConfigPutsKnown, Config!ServedIsRecent,
           Config!InKvSince
<1>3. CASE Config!Turn
  BY <1>3 DEF Config!Turn, ConfigInv, Config!TypeOK, ConfigPast, ConfigPutsKnown,
         Config!ServedIsRecent, Config!InKvSince
<1>4. ASSUME NEW i \in Isolates, Config!Evict(i)
      PROVE  ConfigInv'
  <2>1. Config!TypeOK'
    BY <1>4 DEF Config!Evict, ConfigInv, Config!TypeOK
  <2>2. \A j \in Isolates : cache'[j] # None => cache'[j] = cache[j]
    BY <1>4 DEF Config!Evict, ConfigInv, Config!TypeOK
  <2>3. \A c \in Clients : req'[c].st # "idle" => req'[c] = req[c]
    BY <1>4 DEF Config!Evict, Config!Idle
  <2>4. ConfigPast'
    BY <1>4, <2>2, <2>3 DEF Config!Evict, ConfigInv, ConfigPast
  <2>5. ConfigPutsKnown'
    BY <1>4, <2>3 DEF Config!Evict, ConfigInv, ConfigPutsKnown, Config!InKvSince
  <2>6. Config!ServedIsRecent'
    BY <1>4, <2>2 DEF Config!Evict, ConfigInv, Config!ServedIsRecent, Config!InKvSince
  <2> QED
    BY <2>1, <2>4, <2>5, <2>6 DEF ConfigInv
<1> QED
  BY <1>2, <1>3, <1>4

(* A request that begins.                                                    *)
LEMMA ConfigBeginKeeps ==
    ASSUME ConfigInv, NEW c \in Clients, NEW i \in Isolates,
           Config!Get(c, i) \/ \E change \in Config!Changes : Config!Update(c, i, change),
           MaxUpdates \in Nat
    PROVE  ConfigInv'
<1>1. now \in 0..MaxTime /\ updates \in 0..MaxUpdates
  BY DEF ConfigInv, Config!TypeOK
<1>2. \A change \in {None} \cup Config!Changes :
         [st |-> "read", home |-> i, change |-> change, asked |-> now] \in Config!Reads
  BY <1>1 DEF Config!Reads
<1>3. CASE Config!Get(c, i)
  <2>1. PICK r \in Config!Reads :
           r = [st |-> "read", home |-> i, change |-> None, asked |-> now]
    BY <1>2
  <2>2. req' = [req EXCEPT ![c] = r] /\ r.st = "read" /\ r.asked = now
    BY <1>3, <2>1 DEF Config!Get
  <2> QED
    BY <1>1, <1>3, <2>2, ConfigRequestKeeps DEF Config!Get
<1>4. ASSUME NEW change \in Config!Changes, Config!Update(c, i, change)
      PROVE  ConfigInv'
  <2>1. updates' \in 0..MaxUpdates /\ UNCHANGED <<stored, lastIn, now, closed, cache>>
    BY <1>1, <1>4 DEF Config!Update
  <2>2. PICK r \in Config!Reads \cup Config!Puts :
           req' = [req EXCEPT ![c] = r] /\ r.asked = now /\ r.st # "cache"
    <3>1. CASE Config!Trusted(i)
      <4>1. cache[i] \in Config!Copies
        BY <3>1 DEF Config!Trusted, ConfigInv, Config!TypeOK
      <4>2. cache[i].val \in Config!Configs
        BY <4>1 DEF Config!Copies
      <4> DEFINE m == Config!Merge(i, cache[i].val, change)
      <4>3. m \in Config!Puts /\ m.asked = now /\ m.st # "cache"
        BY <4>2, ConfigMergeTyped DEF ConfigInv
      <4>4. req' = [req EXCEPT ![c] = m]
        BY <1>4, <3>1 DEF Config!Update
      <4> QED
        BY <4>3, <4>4
    <3>2. CASE ~Config!Trusted(i)
      <4> DEFINE m == [st |-> "read", home |-> i, change |-> change, asked |-> now]
      <4>1. m \in Config!Reads /\ m.asked = now /\ m.st # "cache"
        BY <1>2
      <4>2. req' = [req EXCEPT ![c] = m]
        BY <1>4, <3>2 DEF Config!Update
      <4> QED
        BY <4>1, <4>2
    <3> QED
      BY <3>1, <3>2
  <2> QED
    BY <2>1, <2>2, ConfigRequestKeeps
<1> QED
  BY <1>3, <1>4

(* A copy replaced by one dated in the past, of what it says was in KV then.  *)
LEMMA ConfigCopyKeeps ==
    ASSUME ConfigInv, NEW c \in Clients, NEW i \in Isolates, NEW copy \in Config!Copies,
           copy.at <= now, copy.asked <= now,
           copy.from = "read" => Config!InKvSince(copy.val, copy.at),
           copy.from = "put" => Config!InKvSince(copy.val, copy.asked),
           NEW r \in {Config!Idle} \cup Config!Puts, r.st # "idle" => r.asked = now,
                  r.st # "cache",
           cache' = [cache EXCEPT ![i] = copy], req' = [req EXCEPT ![c] = r],
           UNCHANGED <<stored, lastIn, now, closed, updates>>
    PROVE  ConfigInv'
<1>1. \A d \in Clients : req'[d] = IF d = c THEN r ELSE req[d]
  BY DEF ConfigInv, Config!TypeOK
<1>2. \A j \in Isolates : cache'[j] = IF j = i THEN copy ELSE cache[j]
  BY DEF ConfigInv, Config!TypeOK
<1>3. Config!TypeOK'
  BY DEF ConfigInv, Config!TypeOK
<1>4. now \in Int
  BY DEF ConfigInv, Config!TypeOK
<1>5. ConfigPast'
  BY <1>1, <1>2, <1>4 DEF ConfigInv, ConfigPast
<1>6. ConfigPutsKnown'
  BY <1>1 DEF ConfigInv, ConfigPutsKnown, Config!InKvSince
<1>7. Config!ServedIsRecent'
  BY <1>2 DEF ConfigInv, Config!ServedIsRecent, Config!InKvSince
<1> QED
  BY <1>3, <1>5, <1>6, <1>7 DEF ConfigInv

(* The answer of KV becomes the copy, and the base of the update.            *)
LEMMA ConfigFillKeeps ==
    ASSUME ConfigInv, NEW c \in Clients, Config!ReadStored(c) \/ Config!ReadFails(c)
    PROVE  ConfigInv'
<1>1. req[c] \in Config!Reads /\ req[c].st = "read"
  BY ConfigShapes DEF ConfigInv, Config!ReadStored, Config!ReadFails
<1>2. /\ req[c].home \in Isolates /\ req[c].asked \in 0..MaxTime
      /\ req[c].change \in {None} \cup Config!Changes /\ req[c].asked <= now
  BY <1>1 DEF Config!Reads, ConfigInv, ConfigPast
<1>3. /\ now \in 0..MaxTime /\ MaxTime \in Nat
      /\ stored \in Config!Configs /\ Config!Default \in Config!Configs
  BY DEF ConfigInv, Config!TypeOK, Config!Default, Config!Configs
<1>4. ASSUME NEW val \in Config!Configs, NEW from \in {"read", "failed"}, Config!Fill(c, val,
       from),
             from = "read" => val = stored
      PROVE  ConfigInv'
  <2> DEFINE i == req[c].home
             copy == [val |-> val, at |-> req[c].asked, from |-> from, asked |-> req[c].asked]
             r == IF req[c].change = None THEN Config!Idle ELSE Config!Merge(i, val,
                    req[c].change)
  <2>1. copy \in Config!Copies
    BY <1>2 DEF Config!Copies, Config!Sources
  <2>2. r \in {Config!Idle} \cup Config!Puts /\ (r.st # "idle" => r.asked = now) /\ r.st # "cache"
    <3>1. CASE req[c].change = None
      BY <3>1 DEF Config!Idle
    <3>2. CASE req[c].change # None
      <4>1. req[c].change \in Config!Changes
        BY <1>2, <3>2
      <4> QED
        BY <1>2, <3>2, <4>1, ConfigMergeTyped DEF ConfigInv
    <3> QED
      BY <3>1, <3>2
  <2>3. cache' = [cache EXCEPT ![i] = copy] /\ UNCHANGED <<stored, lastIn, now, closed, updates>>
    BY <1>4 DEF Config!Fill
  <2>4. req' = [req EXCEPT ![c] = r]
    BY <1>4 DEF Config!Fill
  <2>5. /\ copy.at <= now /\ copy.asked <= now
        /\ copy.from = "read" => Config!InKvSince(copy.val, copy.at)
        /\ copy.from = "put" => Config!InKvSince(copy.val, copy.asked)
    BY <1>2, <1>4 DEF Config!InKvSince
  <2>6. i \in Isolates
    BY <1>2
  <2> HIDE DEF i, copy, r
  <2> QED
    BY <2>1, <2>2, <2>3, <2>4, <2>5, <2>6, ConfigCopyKeeps
<1>5. CASE Config!ReadStored(c)
  BY <1>3, <1>4, <1>5 DEF Config!ReadStored
<1>6. CASE Config!ReadFails(c)
  BY <1>3, <1>4, <1>6 DEF Config!ReadFails
<1> QED
  BY <1>5, <1>6

(* What was known to have been in KV still is after a put, for whatever copy *)
(* and request stay as they were.                                           *)
LEMMA ConfigKnownKeeps ==
    ASSUME ConfigInv, NEW w \in Config!Configs, Config!Store(w)
    PROVE  /\ \A d \in Clients : req[d].st = "cache" =>
                 stored' = req[d].val \/ lastIn'[req[d].val] >= req[d].asked
           /\ \A j \in Isolates : cache[j] # None =>
                 /\ cache[j].from = "read" =>
                       stored' = cache[j].val \/ lastIn'[cache[j].val] >= cache[j].at
                 /\ cache[j].from = "put" =>
                       stored' = cache[j].val \/ lastIn'[cache[j].val] >= cache[j].asked
<1>1. \A v \in Config!Configs, t \in Int :
         t <= now /\ Config!InKvSince(v, t) => stored' = v \/ lastIn'[v] >= t
  BY ConfigStoreKeeps DEF ConfigInv, Config!InKvSince
<1>2. ASSUME NEW d \in Clients, req[d].st = "cache"
      PROVE  stored' = req[d].val \/ lastIn'[req[d].val] >= req[d].asked
  <2>1. req[d] \in Config!Puts
    BY <1>2, ConfigShapes DEF ConfigInv
  <2>2. req[d].val \in Config!Configs /\ req[d].asked \in Int
    BY <2>1 DEF Config!Puts, ConfigInv
  <2>3. req[d].asked <= now /\ Config!InKvSince(req[d].val, req[d].asked)
    BY <1>2 DEF ConfigInv, ConfigPast, ConfigPutsKnown
  <2> QED
    BY <1>1, <2>2, <2>3
<1>3. ASSUME NEW j \in Isolates, cache[j] # None
      PROVE  /\ cache[j].from = "read" =>
                    stored' = cache[j].val \/ lastIn'[cache[j].val] >= cache[j].at
             /\ cache[j].from = "put" =>
                    stored' = cache[j].val \/ lastIn'[cache[j].val] >= cache[j].asked
  <2>1. cache[j] \in Config!Copies
    BY <1>3 DEF ConfigInv, Config!TypeOK
  <2>2. cache[j].val \in Config!Configs /\ cache[j].at \in Int /\ cache[j].asked \in Int
    BY <2>1 DEF Config!Copies, ConfigInv
  <2>3. cache[j].at <= now /\ cache[j].asked <= now
    BY <1>3 DEF ConfigInv, ConfigPast
  <2>4. /\ cache[j].from = "read" => Config!InKvSince(cache[j].val, cache[j].at)
        /\ cache[j].from = "put" => Config!InKvSince(cache[j].val, cache[j].asked)
    BY <1>3 DEF ConfigInv, Config!ServedIsRecent
  <2> QED
    BY <1>1, <2>2, <2>3, <2>4
<1> QED
  BY <1>2, <1>3

(* The put is applied: what it puts is in KV from now on.                    *)
LEMMA ConfigPutKeeps ==
    ASSUME ConfigInv, NEW c \in Clients, Config!Put(c)
    PROVE  ConfigInv'
<1>1. req[c] \in Config!Puts /\ req[c].st = "put"
  BY ConfigShapes DEF ConfigInv, Config!Put
<1>2. req[c].val \in Config!Configs
  BY <1>1 DEF Config!Puts
<1> DEFINE r == [req[c] EXCEPT !.st = "cache"]
<1>3. r \in Config!Puts /\ r.val = req[c].val /\ r.asked = req[c].asked /\ r.st = "cache"
  BY <1>1 DEF Config!Puts
<1>4. req' = [req EXCEPT ![c] = r] /\ Config!Store(req[c].val) /\ stored' = req[c].val
  BY DEF Config!Put, Config!Store
<1> HIDE DEF r
<1>5. \A d \in Clients : req'[d] = IF d = c THEN r ELSE req[d]
  BY <1>4 DEF ConfigInv, Config!TypeOK
<1>6. Config!TypeOK'
  BY <1>2, <1>3, <1>4, ConfigStoreTyped DEF Config!Put, ConfigInv, Config!TypeOK
<1>7. ConfigPast'
  BY <1>1, <1>3, <1>5 DEF Config!Put, ConfigInv, ConfigPast
<1>8. ConfigPutsKnown'
  BY <1>2, <1>3, <1>4, <1>5, ConfigKnownKeeps DEF ConfigPutsKnown, Config!InKvSince
<1>9. Config!ServedIsRecent'
  BY <1>2, <1>4, ConfigKnownKeeps DEF Config!Put, Config!ServedIsRecent, Config!InKvSince
<1> QED
  BY <1>6, <1>7, <1>8, <1>9 DEF ConfigInv

(* The put throws, applied or not: the copy is dropped.                      *)
LEMMA ConfigPutFailsKeeps ==
    ASSUME ConfigInv, NEW c \in Clients, Config!PutFails(c)
    PROVE  ConfigInv'
<1>1. req[c] \in Config!Puts /\ req[c].st = "put"
  BY ConfigShapes DEF ConfigInv, Config!PutFails
<1>2. req[c].val \in Config!Configs /\ req[c].home \in Isolates
  BY <1>1 DEF Config!Puts
<1>3. \A d \in Clients : req'[d] = IF d = c THEN Config!Idle ELSE req[d]
  BY DEF Config!PutFails, ConfigInv, Config!TypeOK
<1>4. \A j \in Isolates : cache'[j] = IF j = req[c].home THEN None ELSE cache[j]
  BY DEF Config!PutFails, ConfigInv, Config!TypeOK
<1>5. /\ stored' \in Config!Configs /\ lastIn' \in [Config!Configs -> -1..MaxTime]
      /\ \A d \in Clients : req[d].st = "cache" =>
             stored' = req[d].val \/ lastIn'[req[d].val] >= req[d].asked
      /\ \A j \in Isolates : cache[j] # None =>
             /\ cache[j].from = "read" =>
                   stored' = cache[j].val \/ lastIn'[cache[j].val] >= cache[j].at
             /\ cache[j].from = "put" =>
                   stored' = cache[j].val \/ lastIn'[cache[j].val] >= cache[j].asked
  <2>1. CASE Config!Store(req[c].val)
    BY <1>2, <2>1, ConfigStoreTyped, ConfigKnownKeeps DEF ConfigInv
  <2>2. CASE UNCHANGED <<stored, lastIn>>
    BY <2>2 DEF ConfigInv, Config!TypeOK, ConfigPutsKnown, Config!ServedIsRecent,
           Config!InKvSince
  <2> QED
    BY <2>1, <2>2 DEF Config!PutFails
<1>6. Config!TypeOK'
  BY <1>5 DEF Config!PutFails, ConfigInv, Config!TypeOK
<1>7. ConfigPast'
  BY <1>3, <1>4 DEF Config!PutFails, ConfigInv, ConfigPast, Config!Idle
<1>8. ConfigPutsKnown'
  BY <1>3, <1>5 DEF ConfigPutsKnown, Config!InKvSince, Config!Idle
<1>9. Config!ServedIsRecent'
  BY <1>4, <1>5 DEF Config!ServedIsRecent, Config!InKvSince
<1> QED
  BY <1>6, <1>7, <1>8, <1>9 DEF ConfigInv

(* The copy becomes the configuration merged.                                *)
LEMMA ConfigCacheUpdateKeeps ==
    ASSUME ConfigInv, NEW c \in Clients, Config!CacheUpdate(c)
    PROVE  ConfigInv'
<1>1. req[c] \in Config!Puts /\ req[c].st \in {"cache", "skip"}
  BY ConfigShapes DEF ConfigInv, Config!CacheUpdate
<1>2. /\ req[c].val \in Config!Configs /\ req[c].home \in Isolates
      /\ req[c].asked \in 0..MaxTime /\ req[c].asked <= now
  BY <1>1 DEF Config!Puts, ConfigInv, ConfigPast
<1> DEFINE i == req[c].home
           copy == [val |-> req[c].val, at |-> now, asked |-> req[c].asked,
                    from |-> IF req[c].st = "cache" THEN "put" ELSE "skipped"]
<1>3. now \in 0..MaxTime /\ now <= now
  BY DEF ConfigInv, Config!TypeOK
<1>4. copy \in Config!Copies /\ copy.at <= now /\ copy.asked <= now
  BY <1>2, <1>3 DEF Config!Copies, Config!Sources
<1>5. /\ copy.from = "read" => Config!InKvSince(copy.val, copy.at)
      /\ copy.from = "put" => Config!InKvSince(copy.val, copy.asked)
  BY DEF ConfigInv, ConfigPutsKnown
<1>6. cache' = [cache EXCEPT ![i] = copy] /\ req' = [req EXCEPT ![c] = Config!Idle]
  BY DEF Config!CacheUpdate
<1>7. UNCHANGED <<stored, lastIn, now, closed, updates>> /\ i \in Isolates
  BY <1>2 DEF Config!CacheUpdate
<1>8. Config!Idle.st = "idle"
  BY DEF Config!Idle
<1> HIDE DEF i, copy
<1> QED
  BY <1>4, <1>5, <1>6, <1>7, <1>8, ConfigCopyKeeps
-----------------------------------------------------------------------------
(* Every step keeps the invariant.                                           *)
LEMMA ConfigNextKeeps ==
    ASSUME ConfigInv, [Config!Next]_(Config!vars), MaxUpdates \in Nat
    PROVE  ConfigInv'
<1>1. CASE Config!Tick \/ Config!Turn \/ \E i \in Isolates : Config!Evict(i)
  BY <1>1, ConfigWorldKeeps
<1>2. ASSUME NEW c \in Clients, NEW i \in Isolates,
             Config!Get(c, i) \/ \E change \in Config!Changes : Config!Update(c, i, change)
      PROVE  ConfigInv'
  BY <1>2, ConfigBeginKeeps
<1>3. ASSUME NEW c \in Clients,
             \/ Config!ReadStored(c) \/ Config!ReadFails(c)
             \/ Config!Put(c) \/ Config!PutFails(c) \/ Config!CacheUpdate(c)
      PROVE  ConfigInv'
  BY <1>3, ConfigFillKeeps, ConfigPutKeeps, ConfigPutFailsKeeps, ConfigCacheUpdateKeeps
<1>4. CASE UNCHANGED Config!vars
  BY <1>4 DEF Config!vars, ConfigInv, Config!TypeOK, ConfigPast, ConfigPutsKnown,
         Config!ServedIsRecent, Config!InKvSince
<1> QED
  BY <1>1, <1>2, <1>3, <1>4 DEF Config!Next
-----------------------------------------------------------------------------
(* The selection of datalakes (Datalakes).  A selection is a sequence of      *)
(* statements, so between the first and the last one nothing, or what another *)
(* one turned on, is selected: whatever the ones under way can still leave    *)
(* selected must already be expected.                                        *)
SelectTyped ==
    /\ lakes \in [Lakes -> Select!Rows \cup {Select!NoRow, Select!Deleted}]
    /\ mapping \in [Lakes -> {"none", "off", "on"}]
    /\ req \in [Admins -> {Select!Idle} \cup Select!Requests]
    /\ expected \subseteq SUBSET Lakes
    /\ \A l \in Lakes : mapping[l] # "none" => Select!Present(l)
    /\ \A l, k \in Lakes :
          l # k /\ Select!Present(l) /\ Select!Present(k) => lakes[l].name # lakes[k].name

(* A selection that has met no other is the only one under way, nothing is    *)
(* selected, and the mapping it found is still there.                        *)
SelectSole ==
    \A a \in Select!Selecting : req[a].alone =>
        /\ \A b \in Select!Selecting : b = a
        /\ Select!Selected = {}
        /\ req[a].st = "on" => mapping[req[a].lake] # "none"

(* What may be selected once the selections under way have ended.             *)
SelectReach == Select!Selected \cup {req[b].lake : b \in Select!Selecting}

SelectInv ==
    /\ SelectTyped
    /\ SelectSole
    /\ Select!SelectionKept
    /\ Select!Selecting # {} => SUBSET SelectReach \subseteq expected
-----------------------------------------------------------------------------
(* A request has the fields of its step.                                     *)
LEMMA SelectShapes ==
    ASSUME SelectTyped, NEW a \in Admins
    PROVE  /\ req[a].st = "create" => req[a] \in [st : {"create"}, row : Select!Edits]
           /\ req[a].st \in {"names", "write"} =>
                 req[a] \in [st : {"names", "write"}, lake : Lakes, row : Select!Edits]
           /\ req[a].st \in {"unmap", "remove"} => req[a] \in [st : {"unmap", "remove"},
                  lake : Lakes]
           /\ req[a].st \in {"clear", "find", "on", "insert"} =>
                 req[a] \in [st : {"clear", "find", "on", "insert"}, lake : Lakes,
                        alone : BOOLEAN]
<1>1. req[a] \in {Select!Idle} \cup Select!Requests
  BY DEF SelectTyped
<1>2. Select!Idle.st = "idle"
  BY DEF Select!Idle
<1>3. CASE req[a] \in [st : {"create"}, row : Select!Edits]
  <2>1. req[a].st = "create"
    BY <1>3
  <2> QED
    BY <1>3, <2>1
<1>4. CASE req[a] \in [st : {"names", "write"}, lake : Lakes, row : Select!Edits]
  <2>1. req[a].st \in {"names", "write"}
    BY <1>4
  <2> QED
    BY <1>4, <2>1
<1>5. CASE req[a] \in [st : {"unmap", "remove"}, lake : Lakes]
  <2>1. req[a].st \in {"unmap", "remove"}
    BY <1>5
  <2> QED
    BY <1>5, <2>1
<1>6. CASE req[a] \in [st : {"clear", "find", "on", "insert"}, lake : Lakes, alone : BOOLEAN]
  <2>1. req[a].st \in {"clear", "find", "on", "insert"}
    BY <1>6
  <2> QED
    BY <1>6, <2>1
<1>7. CASE req[a] = Select!Idle
  BY <1>2, <1>7
<1> QED
  BY <1>1, <1>3, <1>4, <1>5, <1>6, <1>7 DEF Select!Requests

LEMMA SelectRowsPresent ==
    /\ Select!NoRow \notin Select!Rows /\ Select!Deleted \notin Select!Rows
    /\ Select!Edits = Select!Rows
<1>1. \A r \in Select!Rows : DOMAIN r = {"name", "active"}
  BY DEF Select!Rows
<1>2. DOMAIN Select!NoRow = {"gone"} /\ DOMAIN Select!Deleted = {"gone"}
  BY DEF Select!NoRow, Select!Deleted
<1>3. {"gone"} # {"name", "active"}
  OBVIOUS
<1> QED
  BY <1>1, <1>2, <1>3 DEF Select!Rows, Select!Edits

(* One request goes from a step outside the selections to another, or ends:   *)
(* the table of mappings and what is expected stay.                          *)
LEMMA SelectRequestKeeps ==
    ASSUME SelectInv, NEW a \in Admins, NEW r \in {Select!Idle} \cup Select!Requests,
           req' = [req EXCEPT ![a] = r],
           r.st \notin {"find", "on", "insert"},
           UNCHANGED <<mapping, expected>>,
           lakes' \in [Lakes -> Select!Rows \cup {Select!NoRow, Select!Deleted}],
           \A l \in Lakes : Select!Present(l) /\ mapping[l] # "none" => Select!Present(l)',
           \A l, k \in Lakes :
              l # k /\ Select!Present(l)' /\ Select!Present(k)' => lakes'[l].name # lakes'[k].name
    PROVE  SelectInv'
<1>1. \A b \in Admins : req'[b] = IF b = a THEN r ELSE req[b]
  BY DEF SelectInv, SelectTyped
<1>2. Select!Selecting' = Select!Selecting \ {a} /\ Select!Selected' = Select!Selected
  BY <1>1 DEF Select!Selecting, Select!Selected
<1>3. \A b \in Select!Selecting' : req'[b] = req[b] /\ b \in Select!Selecting
  BY <1>1, <1>2
<1>4. SelectTyped'
  BY DEF SelectInv, SelectTyped, Select!Present
<1>5. SelectSole'
  BY <1>2, <1>3 DEF SelectInv, SelectSole
<1>6. Select!SelectionKept'
  BY <1>2 DEF SelectInv, Select!SelectionKept
<1>7. ASSUME Select!Selecting' # {} PROVE SUBSET SelectReach' \subseteq expected'
  <2>1. SelectReach' \subseteq SelectReach
    BY <1>2, <1>3 DEF SelectReach
  <2> QED
    BY <1>2, <1>7, <2>1 DEF SelectInv
<1> QED
  BY <1>4, <1>5, <1>6, <1>7 DEF SelectInv

(* The instance has its own name for the operator of FiniteSets.              *)
LEMMA SelectSameCardinality == \A S : Select!Cardinality(S) = Cardinality(S)
BY Zenon DEF Select!Cardinality, Cardinality

(* Between requests nothing is selected.                                      *)
LEMMA SelectIdleRequest ==
    Select!Idle \in {Select!Idle} \cup Select!Requests /\ Select!Idle.st = "idle"
BY DEF Select!Idle

LEMMA SelectFailKeeps == ASSUME SelectInv, NEW a \in Admins, Select!StatementFails(a)
       PROVE SelectInv'
BY SelectRequestKeeps, SelectIdleRequest DEF Select!StatementFails, Select!End, Select!Begin,
       SelectInv, SelectTyped, Select!Present

LEMMA SelectCreateKeeps ==
    ASSUME SelectInv, NEW a \in Admins,
           \/ \E row \in Select!Edits : Select!CreateChecks(a, row)
           \/ \E l \in Lakes : Select!CreateInserts(a, l)
    PROVE  SelectInv'
<1>1. ASSUME NEW row \in Select!Edits, Select!CreateChecks(a, row) PROVE SelectInv'
  <2> DEFINE r == [st |-> "create", row |-> row]
  <2>1. r \in {Select!Idle} \cup Select!Requests /\ r.st = "create"
    BY DEF Select!Requests
  <2> HIDE DEF r
  <2>2. req' = [req EXCEPT ![a] = r] /\ UNCHANGED <<lakes, mapping, expected>>
    BY <1>1 DEF Select!CreateChecks, Select!Begin, r
  <2> QED
    BY <2>1, <2>2, SelectRequestKeeps DEF SelectInv, SelectTyped, Select!Present
<1>2. ASSUME NEW l \in Lakes, Select!CreateInserts(a, l) PROVE SelectInv'
  <2>1. req[a] \in [st : {"create"}, row : Select!Edits]
    BY <1>2, SelectShapes DEF Select!CreateInserts, SelectInv
  <2>2. req[a].row \in Select!Rows
    BY <2>1, SelectRowsPresent
  <2>3. req' = [req EXCEPT ![a] = Select!Idle] /\ UNCHANGED <<mapping, expected>>
    BY <1>2 DEF Select!CreateInserts, Select!End, Select!Begin
  <2>4. CASE Select!IndexRefuses(req[a].row.name, {})
    BY <1>2, <2>3, <2>4, SelectRequestKeeps, SelectIdleRequest DEF Select!CreateInserts,
           SelectInv, SelectTyped, Select!Present
  <2>5. CASE ~Select!IndexRefuses(req[a].row.name, {})
    <3>1. lakes' = [lakes EXCEPT ![l] = req[a].row]
      BY <1>2, <2>5 DEF Select!CreateInserts
    <3>2. \A k \in Lakes : lakes'[k] = IF k = l THEN req[a].row ELSE lakes[k]
      BY <3>1 DEF SelectInv, SelectTyped
    <3>3. lakes' \in [Lakes -> Select!Rows \cup {Select!NoRow, Select!Deleted}]
      BY <2>2, <3>1 DEF SelectInv, SelectTyped
    <3>4. \A k \in Lakes : Select!Present(k) => Select!Present(k)'
      BY <2>2, <3>2 DEF Select!Present
    <3>5. \A k \in Lakes : Select!Present(k) => lakes[k].name # req[a].row.name
      BY <2>5 DEF Select!IndexRefuses
    <3>6. \A k, m \in Lakes :
             k # m /\ Select!Present(k)' /\ Select!Present(m)' => lakes'[k].name # lakes'[m].name
      BY <3>2, <3>5 DEF SelectInv, SelectTyped, Select!Present
    <3> QED
      BY <2>3, <3>3, <3>4, <3>6, SelectRequestKeeps, SelectIdleRequest
  <2> QED
    BY <2>4, <2>5
<1> QED
  BY <1>1, <1>2

LEMMA SelectUpdateKeeps ==
    ASSUME SelectInv, NEW a \in Admins,
           \/ \E l \in Lakes, row \in Select!Edits : Select!UpdateReads(a, l, row)
           \/ Select!UpdateChecks(a) \/ Select!UpdateWrites(a)
    PROVE  SelectInv'
<1>1. ASSUME NEW l \in Lakes, NEW row \in Select!Edits, Select!UpdateReads(a, l, row)
       PROVE SelectInv'
  <2> DEFINE r == [st |-> IF row.name = lakes[l].name THEN "write" ELSE "names",
                   lake |-> l, row |-> row]
  <2>1. r \in {Select!Idle} \cup Select!Requests /\ r.st \in {"write", "names"}
    BY DEF Select!Requests
  <2>2. req' = [req EXCEPT ![a] = r] /\ UNCHANGED <<lakes, mapping, expected>>
    BY <1>1 DEF Select!UpdateReads, Select!Begin
  <2> HIDE DEF r
  <2> QED
    BY <2>1, <2>2, SelectRequestKeeps DEF SelectInv, SelectTyped, Select!Present
<1>2. CASE Select!UpdateChecks(a)
  <2>1. req[a] \in [st : {"names", "write"}, lake : Lakes, row : Select!Edits]
    BY <1>2, SelectShapes DEF Select!UpdateChecks, SelectInv
  <2>2. UNCHANGED <<lakes, mapping, expected>>
    BY <1>2 DEF Select!UpdateChecks
  <2>3. CASE req' = [req EXCEPT ![a] = Select!Idle]
    BY <2>2, <2>3, SelectRequestKeeps, SelectIdleRequest DEF SelectInv, SelectTyped,
           Select!Present
  <2>4. CASE req' = [req EXCEPT ![a].st = "write"]
    <3> DEFINE r == [req[a] EXCEPT !.st = "write"]
    <3>1. r \in {Select!Idle} \cup Select!Requests /\ r.st = "write"
      BY <2>1 DEF Select!Requests
    <3>2. req' = [req EXCEPT ![a] = r]
      BY <2>4 DEF SelectInv, SelectTyped
    <3> HIDE DEF r
    <3> QED
      BY <2>2, <3>1, <3>2, SelectRequestKeeps DEF SelectInv, SelectTyped, Select!Present
  <2> QED
    BY <1>2, <2>3, <2>4 DEF Select!UpdateChecks, Select!End, Select!Begin, Select!GoTo
<1>3. CASE Select!UpdateWrites(a)
  <2> DEFINE l == req[a].lake
             row == req[a].row
  <2>1. req[a] \in [st : {"names", "write"}, lake : Lakes, row : Select!Edits]
    BY <1>3, SelectShapes DEF Select!UpdateWrites, SelectInv
  <2>2. l \in Lakes /\ row \in Select!Rows
    BY <2>1, SelectRowsPresent
  <2>3. req' = [req EXCEPT ![a] = Select!Idle] /\ UNCHANGED <<mapping, expected>>
    BY <1>3 DEF Select!UpdateWrites, Select!End, Select!Begin
  <2>4. CASE ~(Select!Present(l) /\ ~Select!IndexRefuses(row.name, {l}))
    <3>1. lakes' = lakes
      BY <1>3, <2>4 DEF Select!UpdateWrites
    <3> QED
      BY <2>3, <3>1, SelectRequestKeeps, SelectIdleRequest DEF SelectInv, SelectTyped,
             Select!Present
  <2>5. CASE Select!Present(l) /\ ~Select!IndexRefuses(row.name, {l})
    <3>1. lakes' = [lakes EXCEPT ![l] = row]
      BY <1>3, <2>5 DEF Select!UpdateWrites
    <3>2. \A k \in Lakes : lakes'[k] = IF k = l THEN row ELSE lakes[k]
      BY <3>1 DEF SelectInv, SelectTyped
    <3>3. lakes' \in [Lakes -> Select!Rows \cup {Select!NoRow, Select!Deleted}]
      BY <2>2, <3>1 DEF SelectInv, SelectTyped
    <3>4. \A k \in Lakes : Select!Present(k) => Select!Present(k)'
      BY <2>2, <3>2 DEF Select!Present
    <3>5. \A k \in Lakes \ {l} : Select!Present(k) => lakes[k].name # row.name
      BY <2>5 DEF Select!IndexRefuses
    <3>6. \A k, m \in Lakes :
             k # m /\ Select!Present(k)' /\ Select!Present(m)' => lakes'[k].name # lakes'[m].name
      BY <3>2, <3>5 DEF SelectInv, SelectTyped, Select!Present
    <3> QED
      BY <2>3, <3>3, <3>4, <3>6, SelectRequestKeeps, SelectIdleRequest
  <2> QED
    BY <2>4, <2>5
<1> QED
  BY <1>1, <1>2, <1>3

LEMMA SelectDeleteKeeps ==
    ASSUME SelectInv, NEW a \in Admins,
           \/ \E l \in Lakes : Select!DeleteChecks(a, l)
           \/ Select!DeleteMappings(a) \/ Select!DeleteLake(a)
    PROVE  SelectInv'
<1>1. ASSUME NEW l \in Lakes, Select!DeleteChecks(a, l) PROVE SelectInv'
  <2> DEFINE r == [st |-> "unmap", lake |-> l]
  <2>1. r \in {Select!Idle} \cup Select!Requests /\ r.st = "unmap"
    BY DEF Select!Requests
  <2>2. req' = [req EXCEPT ![a] = r] /\ UNCHANGED <<lakes, mapping, expected>>
    BY <1>1 DEF Select!DeleteChecks, Select!Begin
  <2> HIDE DEF r
  <2> QED
    BY <2>1, <2>2, SelectRequestKeeps DEF SelectInv, SelectTyped, Select!Present
<1>2. CASE Select!DeleteMappings(a)
  <2> DEFINE l == req[a].lake
             met == {b \in Select!Selecting : req[b].lake = l}
             r == [req[a] EXCEPT !.st = "remove"]
  <2>1. req[a] \in [st : {"unmap", "remove"}, lake : Lakes] /\ req[a].st = "unmap"
    BY <1>2, SelectShapes DEF Select!DeleteMappings, SelectInv
  <2>2. l \in Lakes /\ a \notin Select!Selecting /\ r \in Select!Requests /\ r.st = "remove"
    BY <2>1 DEF Select!Selecting, Select!Requests
  <2>3. /\ mapping' = [mapping EXCEPT ![l] = "none"]
        /\ expected' = {chosen \ {l} : chosen \in expected}
                         \cup (IF met = {} THEN {} ELSE expected)
        /\ req' = [b \in Admins |->
                     IF b = a THEN r
                     ELSE IF b \in met THEN [req[b] EXCEPT !.alone = FALSE]
                     ELSE req[b]]
        /\ lakes' = lakes
    BY <1>2 DEF Select!DeleteMappings
  <2>4. ASSUME NEW b \in Select!Selecting
        PROVE  /\ req[b] \in [st : {"find", "on", "insert"}, lake : Lakes, alone : BOOLEAN]
               /\ [req[b] EXCEPT !.alone = FALSE]
                     \in [st : {"find", "on", "insert"}, lake : Lakes, alone : BOOLEAN]
    <3>1. b \in Admins /\ req[b].st \in {"find", "on", "insert"}
      BY DEF Select!Selecting
    <3> QED
      BY <3>1, SelectShapes DEF SelectInv
  <2>5. \A b \in Select!Selecting : /\ req'[b].lake = req[b].lake /\ req'[b].st = req[b].st
                                    /\ b \in met => req'[b].alone = FALSE
                                    /\ b \notin met => req'[b] = req[b]
    BY <2>2, <2>3, <2>4 DEF Select!Selecting
  <2>6. Select!Selecting' = Select!Selecting
    <3>1. a \notin Select!Selecting'
      BY <2>2, <2>3 DEF Select!Selecting
    <3>2. \A b \in Admins \ {a} : b \notin Select!Selecting => req'[b] = req[b]
      BY <2>3
    <3> QED
      BY <2>2, <2>5, <3>1, <3>2 DEF Select!Selecting
  <2>7. \A k \in Lakes : mapping'[k] = IF k = l THEN "none" ELSE mapping[k]
    BY <2>2, <2>3 DEF SelectInv, SelectTyped
  <2>8. Select!Selected' = Select!Selected \ {l}
    BY <2>2, <2>7 DEF Select!Selected
  <2> HIDE DEF l, met, r
  <2>9. SelectTyped'
    <3>1. req' \in [Admins -> {Select!Idle} \cup Select!Requests]
      <4>1. \A b \in met : [req[b] EXCEPT !.alone = FALSE] \in Select!Requests
        BY <2>4 DEF met, Select!Requests
      <4> QED
        BY <2>2, <2>3, <4>1 DEF SelectInv, SelectTyped
    <3>2. expected' \subseteq SUBSET Lakes
      BY <2>3 DEF SelectInv, SelectTyped
    <3>3. mapping' \in [Lakes -> {"none", "off", "on"}]
      BY <2>3 DEF SelectInv, SelectTyped
    <3> QED
      BY <2>3, <2>7, <3>1, <3>2, <3>3 DEF SelectInv, SelectTyped, Select!Present
  <2>10. SelectSole'
    <3> SUFFICES ASSUME NEW b \in Select!Selecting, req'[b].alone
                 PROVE  /\ \A c \in Select!Selecting : c = b
                        /\ Select!Selected' = {}
                        /\ req'[b].st = "on" => mapping'[req'[b].lake] # "none"
      BY <2>6 DEF SelectSole
    <3>1. b \notin met /\ req'[b] = req[b]
      BY <2>5
    <3>2. req[b].lake # l /\ req[b].lake \in Lakes
      BY <2>4, <3>1 DEF met
    <3> QED
      BY <2>7, <2>8, <3>1, <3>2 DEF SelectInv, SelectSole
  <2>11. Select!SelectionKept'
    BY <2>3, <2>8 DEF SelectInv, Select!SelectionKept
  <2>12. ASSUME Select!Selecting # {} PROVE SUBSET SelectReach' \subseteq expected'
    <3>1. SUBSET SelectReach \subseteq expected
      BY <2>12 DEF SelectInv
    <3>2. SelectReach' = (Select!Selected \ {l}) \cup {req[b].lake : b \in Select!Selecting}
      BY <2>5, <2>6, <2>8 DEF SelectReach
    <3>3. CASE met = {}
      <4>1. SelectReach' \subseteq SelectReach \ {l}
        BY <3>2, <3>3 DEF SelectReach, met
      <4>2. ASSUME NEW S \in SUBSET SelectReach' PROVE S \in expected'
        <5>1. S \in expected /\ S = S \ {l}
          BY <3>1, <4>1
        <5> QED
          BY <2>3, <5>1
      <4> QED
        BY <4>2
    <3>4. CASE met # {}
      <4>1. SelectReach' \subseteq SelectReach
        BY <3>2 DEF SelectReach
      <4>2. expected \subseteq expected'
        BY <2>3, <3>4
      <4> QED
        BY <3>1, <4>1, <4>2
    <3> QED
      BY <3>3, <3>4
  <2> QED
    BY <2>6, <2>9, <2>10, <2>11, <2>12 DEF SelectInv
<1>3. CASE Select!DeleteLake(a)
  <2> DEFINE l == req[a].lake
  <2>1. req' = [req EXCEPT ![a] = Select!Idle] /\ UNCHANGED <<mapping, expected>>
    BY <1>3 DEF Select!DeleteLake, Select!End, Select!Begin
  <2>2. lakes' = lakes \/ (mapping[l] = "none" /\ lakes' = [lakes EXCEPT ![l] = Select!Deleted])
    BY <1>3 DEF Select!DeleteLake
  <2>3. lakes' \in [Lakes -> Select!Rows \cup {Select!NoRow, Select!Deleted}]
    BY <2>2 DEF SelectInv, SelectTyped
  <2>4. \A k \in Lakes :
           lakes'[k] = lakes[k] \/ (k = l /\ mapping[k] = "none" /\ lakes'[k] = Select!Deleted)
    BY <2>2 DEF SelectInv, SelectTyped
  <2> HIDE DEF l
  <2>5. \A k \in Lakes : Select!Present(k)' => Select!Present(k) /\ lakes'[k] = lakes[k]
    BY <2>4, SelectRowsPresent DEF Select!Present
  <2>6. \A k \in Lakes : Select!Present(k) /\ mapping[k] # "none" => Select!Present(k)'
    BY <2>4 DEF Select!Present
  <2>7. \A k, m \in Lakes :
           k # m /\ Select!Present(k)' /\ Select!Present(m)' => lakes'[k].name # lakes'[m].name
    BY <2>5 DEF SelectInv, SelectTyped
  <2> QED
    BY <2>1, <2>3, <2>6, <2>7, SelectRequestKeeps, SelectIdleRequest
<1> QED
  BY <1>1, <1>2, <1>3
-----------------------------------------------------------------------------
LEMMA SelectUnselectKeeps == ASSUME SelectInv, NEW a \in Admins, Select!UnselectAll(a)
       PROVE SelectInv'
<1> DEFINE r == [req[a] EXCEPT !.st = "find", !.alone = (Select!Selecting = {})]
<1>1. req[a] \in [st : {"clear", "find", "on", "insert"}, lake : Lakes, alone : BOOLEAN]
      /\ req[a].st = "clear"
  BY SelectShapes DEF Select!UnselectAll, SelectInv
<1>2. /\ a \notin Select!Selecting /\ r \in Select!Requests /\ r.st = "find" /\ r.lake \in Lakes
      /\ r.alone = (Select!Selecting = {})
  BY <1>1 DEF Select!Selecting, Select!Requests
<1>3. /\ mapping' = Select!Unselected
      /\ expected' = IF Select!Selecting = {}
                     THEN {chosen \in SUBSET Lakes : Cardinality(chosen) <= 1}
                     ELSE SUBSET Lakes
      /\ req' = [b \in Admins |->
                   IF b = a THEN r
                   ELSE IF b \in Select!Selecting THEN [req[b] EXCEPT !.alone = FALSE]
                   ELSE req[b]]
      /\ lakes' = lakes
  <2>1. mapping' = Select!Unselected /\ lakes' = lakes
    BY DEF Select!UnselectAll
  <2>2. expected' = IF Select!Selecting = {}
                    THEN {chosen \in SUBSET Lakes : Cardinality(chosen) <= 1}
                    ELSE SUBSET Lakes
    BY SelectSameCardinality, Zenon DEF Select!UnselectAll
  <2>3. req' = [b \in Admins |->
                  IF b = a THEN r
                  ELSE IF b \in Select!Selecting THEN [req[b] EXCEPT !.alone = FALSE]
                  ELSE req[b]]
    BY Zenon DEF Select!UnselectAll
  <2> QED
    BY <2>1, <2>2, <2>3
<1>4. ASSUME NEW b \in Select!Selecting
      PROVE  /\ req[b] \in [st : {"find", "on", "insert"}, lake : Lakes, alone : BOOLEAN]
             /\ [req[b] EXCEPT !.alone = FALSE]
                   \in [st : {"find", "on", "insert"}, lake : Lakes, alone : BOOLEAN]
  <2>1. b \in Admins /\ req[b].st \in {"find", "on", "insert"}
    BY DEF Select!Selecting
  <2> QED
    BY <2>1, SelectShapes DEF SelectInv
<1>5. \A b \in Select!Selecting : /\ req'[b].lake = req[b].lake /\ req'[b].st = req[b].st
                                  /\ req'[b].alone = FALSE /\ req[b].lake \in Lakes
  BY <1>2, <1>3, <1>4 DEF Select!Selecting
<1>6. Select!Selecting' = Select!Selecting \cup {a}
  <2>1. \A b \in Admins \ {a} : b \notin Select!Selecting => req'[b] = req[b]
    BY <1>3
  <2>2. req'[a].st = "find"
    BY <1>2, <1>3
  <2>3. \A b \in Select!Selecting : b \in Select!Selecting'
    BY <1>5 DEF Select!Selecting
  <2>4. a \in Select!Selecting'
    BY <2>2 DEF Select!Selecting
  <2>5. \A b \in Select!Selecting' : b \in Select!Selecting \/ b = a
    BY <2>1 DEF Select!Selecting
  <2> QED
    BY <2>3, <2>4, <2>5
<1>7. req'[a] = r
  BY <1>3
<1> HIDE DEF r
<1>8. Select!Selected' = {}
  BY <1>3 DEF Select!Selected, Select!Unselected
<1>9. SelectTyped'
  <2>1. req' \in [Admins -> {Select!Idle} \cup Select!Requests]
    <3>1. \A b \in Select!Selecting : [req[b] EXCEPT !.alone = FALSE] \in Select!Requests
      BY <1>4 DEF Select!Requests
    <3> QED
      BY <1>2, <1>3, <3>1 DEF SelectInv, SelectTyped
  <2>2. expected' \subseteq SUBSET Lakes
    <3>1. CASE Select!Selecting = {}
      BY <1>3, <3>1
    <3>2. CASE Select!Selecting # {}
      BY <1>3, <3>2
    <3> QED
      BY <3>1, <3>2
  <2>3. mapping' \in [Lakes -> {"none", "off", "on"}]
    BY <1>3 DEF Select!Unselected, SelectInv, SelectTyped
  <2>4. \A l \in Lakes : mapping'[l] # "none" => mapping[l] # "none"
    BY <1>3 DEF Select!Unselected
  <2> QED
    BY <1>3, <2>1, <2>2, <2>3, <2>4 DEF SelectInv, SelectTyped, Select!Present
<1>10. SelectSole'
  BY <1>2, <1>5, <1>6, <1>7, <1>8 DEF SelectSole
<1>11. {} \in expected' /\ \A l \in Lakes : {l} \in expected'
  <2>1. Cardinality({}) = 0 /\ \A l \in Lakes : Cardinality({l}) = 1
    BY FS_EmptySet, FS_Singleton
  <2>2. {} \in SUBSET Lakes /\ \A l \in Lakes : {l} \in SUBSET Lakes
    OBVIOUS
  <2>3. CASE Select!Selecting = {}
    <3>1. expected' = {chosen \in SUBSET Lakes : Cardinality(chosen) <= 1}
      BY <1>3, <2>3
    <3> QED
      BY <2>1, <2>2, <3>1
  <2>4. CASE Select!Selecting # {}
    BY <1>3, <2>2, <2>4
  <2> QED
    BY <2>3, <2>4
<1>12. Select!SelectionKept'
  BY <1>8, <1>11 DEF Select!SelectionKept
<1>13. SUBSET SelectReach' \subseteq expected'
  <2>1. CASE Select!Selecting = {}
    <3>1. SelectReach' = {r.lake}
      <4>1. Select!Selecting' = {a} /\ SelectReach' = {req'[b].lake : b \in Select!Selecting'}
        BY <1>6, <1>8, <2>1 DEF SelectReach
      <4> QED
        BY <1>7, <4>1
    <3>2. \A S \in SUBSET SelectReach' : S = {} \/ S = {r.lake}
      BY <3>1
    <3>3. {r.lake} \in expected' /\ {} \in expected'
      BY <1>2, <1>11
    <3> QED
      BY <3>2, <3>3
  <2>2. CASE Select!Selecting # {}
    <3>1. SelectReach' \subseteq Lakes
      BY <1>2, <1>5, <1>6, <1>7, <1>8 DEF SelectReach
    <3> QED
      BY <1>3, <2>2, <3>1
  <2> QED
    BY <2>1, <2>2
<1> QED
  BY <1>9, <1>10, <1>12, <1>13 DEF SelectInv

(* A selection reaches its next statement, writing nothing.                  *)
LEMMA SelectFindKeeps == ASSUME SelectInv, NEW a \in Admins, Select!FindMapping(a)
       PROVE SelectInv'
<1> DEFINE s == IF mapping[req[a].lake] = "none" THEN "insert" ELSE "on"
           r == [req[a] EXCEPT !.st = s]
<1>1. /\ req[a] \in [st : {"clear", "find", "on", "insert"}, lake : Lakes, alone : BOOLEAN]
      /\ req[a].st = "find" /\ a \in Select!Selecting
  BY SelectShapes DEF Select!FindMapping, SelectInv, Select!Selecting
<1>2. /\ r \in Select!Requests /\ r.st \in {"on", "insert"} /\ r.lake = req[a].lake
      /\ r.alone = req[a].alone /\ (r.st = "on" => mapping[r.lake] # "none")
  BY <1>1 DEF Select!Requests
<1>3. req' = [req EXCEPT ![a] = r] /\ UNCHANGED <<lakes, mapping, expected>>
  BY DEF Select!FindMapping, Select!GoTo, SelectInv, SelectTyped
<1> HIDE DEF r, s
<1>4. \A b \in Admins : req'[b] = IF b = a THEN r ELSE req[b]
  BY <1>3 DEF SelectInv, SelectTyped
<1>5. Select!Selecting' = Select!Selecting /\ Select!Selected' = Select!Selected
  BY <1>1, <1>2, <1>3, <1>4 DEF Select!Selecting, Select!Selected
<1>6. SelectReach' = SelectReach
  <2>1. \A b \in Select!Selecting : req'[b].lake = req[b].lake
    BY <1>2, <1>4 DEF Select!Selecting
  <2> QED
    BY <1>5, <2>1 DEF SelectReach
<1>7. SelectTyped'
  BY <1>2, <1>3 DEF SelectInv, SelectTyped, Select!Present
<1>8. SelectSole'
  <2> SUFFICES ASSUME NEW b \in Select!Selecting, req'[b].alone
               PROVE  /\ \A c \in Select!Selecting : c = b
                      /\ Select!Selected = {}
                      /\ req'[b].st = "on" => mapping[req'[b].lake] # "none"
    BY <1>3, <1>5 DEF SelectSole
  <2>1. b \in Admins /\ req[b].alone
    BY <1>2, <1>4 DEF Select!Selecting
  <2> QED
    BY <1>2, <1>4, <2>1 DEF SelectInv, SelectSole
<1> QED
  BY <1>3, <1>5, <1>6, <1>7, <1>8 DEF SelectInv, Select!SelectionKept

(* The last statement of a selection: it turns its datalake on, or writes     *)
(* nothing; alone it is then the one selected.                               *)
LEMMA SelectLastKeeps ==
    ASSUME SelectInv, NEW a \in Select!Selecting, NEW m \in {"none", "off", "on"},
           req' = [req EXCEPT ![a] = Select!Idle], UNCHANGED lakes,
           mapping' = [mapping EXCEPT ![req[a].lake] = m],
           m = "on" \/ m = mapping[req[a].lake],
           m # "none" => Select!Present(req[a].lake),
           \/ expected' = expected
           \/ req[a].alone /\ m = "on" /\ expected' = {{req[a].lake}}
    PROVE  SelectInv'
<1> DEFINE l == req[a].lake
<1>1. a \in Admins /\ l \in Lakes
  <2>1. a \in Admins /\ req[a].st \in {"find", "on", "insert"}
    BY DEF Select!Selecting
  <2>2. req[a] \in [st : {"clear", "find", "on", "insert"}, lake : Lakes, alone : BOOLEAN]
    BY <2>1, SelectShapes DEF SelectInv
  <2> QED
    BY <2>1, <2>2
<1> HIDE DEF l
<1>2. \A b \in Admins : req'[b] = IF b = a THEN Select!Idle ELSE req[b]
  BY <1>1 DEF SelectInv, SelectTyped
<1>3. \A k \in Lakes : mapping'[k] = IF k = l THEN m ELSE mapping[k]
  BY <1>1 DEF SelectInv, SelectTyped, l
<1>4. Select!Selecting' = Select!Selecting \ {a}
  BY <1>1, <1>2, SelectIdleRequest DEF Select!Selecting
<1>5. \A b \in Select!Selecting' : req'[b] = req[b] /\ b \in Select!Selecting
  BY <1>2, <1>4 DEF Select!Selecting
<1>6. \/ Select!Selected' = Select!Selected
      \/ m = "on" /\ Select!Selected' = Select!Selected \cup {l}
  <2>1. CASE m = "on"
    BY <1>1, <1>3, <2>1 DEF Select!Selected
  <2>2. CASE m # "on"
    BY <1>1, <1>3, <2>2 DEF Select!Selected, l
  <2> QED
    BY <2>1, <2>2
<1>7. /\ SUBSET SelectReach \subseteq expected /\ l \in SelectReach
      /\ Select!Selected' \subseteq SelectReach
  BY <1>6 DEF SelectInv, SelectReach, l
<1>8. SelectTyped'
  <2>1. expected' \subseteq SUBSET Lakes
    BY <1>1 DEF SelectInv, SelectTyped, l
  <2>2. mapping' \in [Lakes -> {"none", "off",
         "on"}] /\ req' \in [Admins -> {Select!Idle} \cup Select!Requests]
    BY DEF SelectInv, SelectTyped
  <2> QED
    BY <1>3, <2>1, <2>2 DEF SelectInv, SelectTyped, Select!Present, l
<1>9. SelectSole'
  <2> SUFFICES ASSUME NEW b \in Select!Selecting', req'[b].alone
               PROVE  FALSE
    BY DEF SelectSole
  <2> QED
    BY <1>4, <1>5 DEF SelectInv, SelectSole
<1>10. CASE expected' = expected
  <2>1. Select!SelectionKept'
    BY <1>7, <1>10 DEF Select!SelectionKept
  <2>2. SelectReach' \subseteq SelectReach
    BY <1>5, <1>7 DEF SelectReach
  <2> QED
    BY <1>7, <1>8, <1>9, <1>10, <2>1, <2>2 DEF SelectInv
<1>11. CASE req[a].alone /\ m = "on" /\ expected' = {{l}}
  <2>1. Select!Selected = {} /\ Select!Selecting' = {}
    BY <1>4, <1>11 DEF SelectInv, SelectSole
  <2>2. Select!Selected' = {l}
    BY <1>1, <1>3, <1>11, <2>1 DEF Select!Selected
  <2> QED
    BY <1>8, <1>9, <1>11, <2>1, <2>2 DEF SelectInv, Select!SelectionKept
<1> QED
  BY <1>10, <1>11 DEF l

LEMMA SelectLastStepsKeep ==
    ASSUME SelectInv, NEW a \in Admins,
           \/ \E l \in Lakes : Select!SelectChecks(a, l)
           \/ Select!SelectMapping(a) \/ Select!InsertMapping(a)
    PROVE  SelectInv'
<1>1. ASSUME NEW l \in Lakes, Select!SelectChecks(a, l) PROVE SelectInv'
  <2> DEFINE r == [st |-> "clear", lake |-> l, alone |-> TRUE]
  <2>1. r \in {Select!Idle} \cup Select!Requests /\ r.st = "clear"
    BY DEF Select!Requests
  <2>2. req' = [req EXCEPT ![a] = r] /\ UNCHANGED <<lakes, mapping, expected>>
    BY <1>1 DEF Select!SelectChecks, Select!Begin
  <2> HIDE DEF r
  <2> QED
    BY <2>1, <2>2, SelectRequestKeeps DEF SelectInv, SelectTyped, Select!Present
<1>2. ASSUME req[a].st \in {"on", "insert"}
      PROVE  a \in Select!Selecting /\ req[a].lake \in Lakes /\ req[a].alone \in BOOLEAN
  <2>1. req[a] \in [st : {"clear", "find", "on", "insert"}, lake : Lakes, alone : BOOLEAN]
    BY <1>2, SelectShapes DEF SelectInv
  <2> QED
    BY <1>2, <2>1 DEF Select!Selecting
<1>3. CASE Select!SelectMapping(a)
  <2> DEFINE l == req[a].lake
             m == IF mapping[l] = "none" THEN "none" ELSE "on"
  <2>1. req[a].st = "on" /\ a \in Select!Selecting /\ l \in Lakes
    BY <1>2, <1>3 DEF Select!SelectMapping
  <2>2. m \in {"none", "off",
         "on"} /\ (m = "on" \/ m = mapping[l]) /\ (m # "none" => mapping[l] # "none")
    OBVIOUS
  <2>3. /\ req' = [req EXCEPT ![a] = Select!Idle] /\ UNCHANGED lakes
        /\ mapping' = [mapping EXCEPT ![l] = m]
    BY <1>3, <2>1 DEF Select!SelectMapping, Select!End, Select!Begin, SelectInv, SelectTyped
  <2>4. m # "none" => Select!Present(l)
    BY <2>1, <2>2 DEF SelectInv, SelectTyped
  <2>5. expected' = expected \/ (req[a].alone /\ m = "on" /\ expected' = {{l}})
    <3>1. req[a].alone => mapping[l] # "none"
      BY <2>1 DEF SelectInv, SelectSole
    <3> QED
      BY <1>3, <3>1 DEF Select!SelectMapping, Select!Confirm
  <2> HIDE DEF m
  <2> QED
    BY <2>1, <2>2, <2>3, <2>4, <2>5, SelectLastKeeps
<1>4. CASE Select!InsertMapping(a)
  <2> DEFINE l == req[a].lake
  <2>1. req[a].st = "insert" /\ a \in Select!Selecting /\ l \in Lakes
    BY <1>2, <1>4 DEF Select!InsertMapping
  <2>2. req' = [req EXCEPT ![a] = Select!Idle] /\ UNCHANGED lakes
    BY <1>4 DEF Select!InsertMapping, Select!End, Select!Begin
  <2>3. CASE Select!Present(l) /\ mapping[l] = "none"
    <3>1. mapping' = [mapping EXCEPT ![l] = "on"]
      BY <1>4, <2>3 DEF Select!InsertMapping
    <3>2. expected' = expected \/ (req[a].alone /\ expected' = {{l}})
      BY <1>4, <2>3 DEF Select!InsertMapping, Select!Confirm
    <3> QED
      BY <2>1, <2>2, <2>3, <3>1, <3>2, SelectLastKeeps
  <2>4. CASE ~(Select!Present(l) /\ mapping[l] = "none")
    <3>1. UNCHANGED <<mapping, expected>>
      BY <1>4, <2>4 DEF Select!InsertMapping
    <3> QED
      BY <2>2, <3>1, SelectRequestKeeps, SelectIdleRequest DEF SelectInv, SelectTyped,
             Select!Present
  <2> QED
    BY <2>3, <2>4
<1> QED
  BY <1>1, <1>3, <1>4

LEMMA SelectInitially == ASSUME DefaultLake \in Lakes, DefaultName \in Names, Select!Init
       PROVE SelectInv
<1>1. [name |-> DefaultName, active |-> TRUE] \in Select!Rows
  BY DEF Select!Rows
<1>2. Select!Selecting = {} /\ Select!Selected = {DefaultLake}
  BY SelectIdleRequest DEF Select!Init, Select!Selecting, Select!Selected
<1>3. \A l \in Lakes : Select!Present(l) => l = DefaultLake
  BY SelectRowsPresent DEF Select!Init, Select!Present
<1>4. \A l \in Lakes : mapping[l] # "none" => l = DefaultLake
  BY DEF Select!Init
<1>5. Select!Present(DefaultLake)
  BY <1>1 DEF Select!Init, Select!Present
<1>6. SelectTyped
  BY <1>1, <1>3, <1>4, <1>5 DEF Select!Init, SelectTyped
<1> QED
  BY <1>2, <1>6 DEF Select!Init, SelectInv, SelectSole, Select!SelectionKept

LEMMA SelectNextKeeps == ASSUME SelectInv, [Select!Next]_(Select!vars) PROVE SelectInv'
<1>1. CASE UNCHANGED Select!vars
  BY <1>1 DEF Select!vars, SelectInv, SelectTyped, Select!Present, SelectSole,
         Select!SelectionKept, Select!Selecting, Select!Selected, SelectReach
<1> QED
  BY <1>1, SelectFailKeeps, SelectCreateKeeps, SelectUpdateKeeps, SelectDeleteKeeps,
         SelectUnselectKeeps, SelectFindKeeps, SelectLastStepsKeep
     DEF Select!Next
-----------------------------------------------------------------------------
(* The market lists (MarketLists).  An entry, in KV or on its way there,     *)
(* expires a TTL after it was made, and was made in the past, so that one    *)
(* that has not expired is at most a TTL old whenever its put was applied.   *)
ListDated(entry) == entry.made <= now /\ entry.expires = entry.made + Ttl

ListEntriesDated ==
    /\ \A k \in Lists!Keys : kv[k] # Lists!Missing => ListDated(kv[k].entry)
    /\ \A p \in puts : ListDated(p.entry)

ListBounds == Ttl \in Nat /\ MaxTime \in Nat

ListInv == ListBounds /\ Lists!TypeOK /\ ListEntriesDated /\ Lists!ListRecent
-----------------------------------------------------------------------------
(* A request in progress is a record with the fields of its shape.           *)
LEMMA ListWorking ==
    ASSUME Lists!TypeOK, NEW c \in Askers, req[c].st # "idle"
    PROVE  req[c] \in Lists!Requests
<1>1. req[c] \in {Lists!Idle} \cup Lists!Requests
  BY DEF Lists!TypeOK
<1>2. Lists!Idle.st = "idle"
  BY DEF Lists!Idle
<1> QED
  BY <1>1, <1>2

(* An entry KV holds, or that is on its way there, is one of the entries.     *)
LEMMA ListHeldEntry ==
    ASSUME ListInv, NEW k \in Lists!Keys, kv[k] # Lists!Missing
    PROVE  kv[k].entry \in Lists!Entries /\ ListDated(kv[k].entry)
<1>1. kv[k] \in Lists!Held
  BY DEF ListInv, Lists!TypeOK
<1> QED
  BY <1>1 DEF Lists!Held, ListInv, ListEntriesDated

(* What a step of a request does besides: puts of entries made now are begun. *)
ListGrows ==
    /\ UNCHANGED <<list, now, closed, kv>>
    /\ puts' \subseteq Lists!Puts
    /\ \A p \in puts' : ListDated(p.entry)

(* A step that begins no put.                                                *)
LEMMA ListNothingGrows == ASSUME ListInv, UNCHANGED <<list, now, closed, kv, puts>>
       PROVE ListGrows
BY DEF ListInv, Lists!TypeOK, ListEntriesDated, ListGrows

(* The puts of an answer of the provider carry an entry made now.             *)
LEMMA ListPutAllGrows ==
    ASSUME ListInv, NEW keys \in SUBSET Lists!Keys, Lists!PutAll(keys), UNCHANGED <<list, now,
           closed, kv>>
    PROVE  ListGrows
<1>1. now \in Nat /\ now \in 0..MaxTime /\ ListBounds
  BY DEF ListInv, Lists!TypeOK, ListBounds
<1>2. Lists!Entry \in Lists!Entries /\ ListDated(Lists!Entry)
  BY <1>1 DEF Lists!Entry, Lists!Entries, ListDated, ListBounds
<1>3. \A p \in puts' : p \in puts \/ \E k \in keys : p = [key |-> k, entry |-> Lists!Entry]
  BY DEF Lists!PutAll
<1>4. puts' \subseteq Lists!Puts
  <2>1. \A k \in keys : [key |-> k, entry |-> Lists!Entry] \in Lists!Puts
    BY <1>2 DEF Lists!Puts
  <2> QED
    BY <1>3, <2>1 DEF ListInv, Lists!TypeOK
<1>5. \A p \in puts' : ListDated(p.entry)
  <2>1. \A k \in keys : ListDated([key |-> k, entry |-> Lists!Entry].entry)
    BY <1>2
  <2> QED
    BY <1>3, <2>1 DEF ListInv, ListEntriesDated
<1> QED
  BY <1>4, <1>5 DEF ListGrows

(* The next step of a request.                                               *)
LEMMA ListStepKeeps ==
    ASSUME ListInv, NEW c \in Askers, req[c].st # "idle", NEW s \in Lists!Steps, Lists!Step(c,
           s), ListGrows
    PROVE  ListInv'
<1>1. req[c] \in Lists!Requests
  BY ListWorking DEF ListInv
<1>2. [req[c] EXCEPT !.st = s] \in Lists!Requests
  BY <1>1 DEF Lists!Requests
<1>3. req' \in [Askers -> {Lists!Idle} \cup Lists!Requests]
  BY <1>2 DEF Lists!Step, ListInv, Lists!TypeOK
<1>4. Lists!TypeOK'
  BY <1>3 DEF Lists!Step, ListGrows, ListInv, Lists!TypeOK
<1>5. ListEntriesDated'
  BY DEF ListGrows, ListInv, ListEntriesDated, ListDated
<1> QED
  BY <1>4, <1>5 DEF ListInv, ListBounds, Lists!ListRecent, Lists!Step

(* An answer; from the cache, one that is at most a TTL old.                 *)
LEMMA ListAnswerKeeps ==
    ASSUME ListInv, NEW c \in Askers, NEW age \in 0..MaxTime,
           NEW how \in {"cache", "provider", "calculated", "stale", "empty"},
           how = "cache" => age <= Ttl,
           Lists!Answer(c, how, age), ListGrows
    PROVE  ListInv'
<1>1. req' \in [Askers -> {Lists!Idle} \cup Lists!Requests]
  BY DEF Lists!Answer, ListInv, Lists!TypeOK
<1>2. last' \in Lists!Answers
  BY DEF Lists!Answer, Lists!Answers
<1>3. Lists!TypeOK'
  BY <1>1, <1>2 DEF ListGrows, ListInv, Lists!TypeOK
<1>4. ListEntriesDated'
  BY DEF ListGrows, ListInv, ListEntriesDated, ListDated
<1>5. Lists!ListRecent'
  BY DEF Lists!ListRecent, Lists!Answer
<1> QED
  BY <1>3, <1>4, <1>5 DEF ListInv, ListBounds
-----------------------------------------------------------------------------
(* Nothing is cached at the start.                                           *)
LEMMA ListInitially == ASSUME ListBounds, Lists!Init PROVE ListInv
<1>1. Lists!TypeOK
  BY DEF ListBounds, Lists!Init, Lists!TypeOK, Lists!Answers
<1>2. ListEntriesDated /\ Lists!ListRecent
  BY DEF Lists!Init, ListEntriesDated, Lists!ListRecent
<1> QED
  BY <1>1, <1>2 DEF ListInv

(* The clock, the hours and KV.                                              *)
LEMMA ListWorldKeeps ==
    ASSUME ListInv,
           \/ Lists!Tick \/ Lists!Turn
           \/ \E p \in puts : Lists!ApplyPut(p) \/ Lists!LosePut(p)
           \/ \E k \in Lists!Keys : Lists!Drop(k)
    PROVE  ListInv'
<1>1. now \in Nat /\ now \in 0..MaxTime /\ Ttl \in Nat /\ MaxTime \in Nat
  BY DEF ListInv, Lists!TypeOK, ListBounds
<1>2. CASE Lists!Tick
  <2>1. now' \in 0..MaxTime /\ now' = now + 1
    BY <1>1, <1>2 DEF Lists!Tick
  <2>2. Lists!TypeOK'
    BY <1>2, <2>1 DEF Lists!Tick, ListInv, Lists!TypeOK
  <2>3. \A k \in Lists!Keys : kv[k] # Lists!Missing => ListDated(kv[k].entry)'
    <3>1. SUFFICES ASSUME NEW k \in Lists!Keys, kv[k] # Lists!Missing
                   PROVE  ListDated(kv[k].entry)'
      OBVIOUS
    <3>2. kv[k].entry \in Lists!Entries /\ ListDated(kv[k].entry)
      BY <3>1, ListHeldEntry
    <3> QED
      BY <1>1, <1>2, <2>1, <3>2 DEF Lists!Tick, Lists!Entries, ListDated
  <2>4. \A p \in puts : ListDated(p.entry)'
    <3>1. SUFFICES ASSUME NEW p \in puts PROVE ListDated(p.entry)'
      OBVIOUS
    <3>2. p.entry \in Lists!Entries /\ ListDated(p.entry)
      BY DEF ListInv, Lists!TypeOK, ListEntriesDated, Lists!Puts
    <3> QED
      BY <1>1, <1>2, <2>1, <3>2 DEF Lists!Tick, Lists!Entries, ListDated
  <2>5. ListEntriesDated'
    BY <1>2, <2>3, <2>4 DEF Lists!Tick, ListEntriesDated
  <2> QED
    BY <1>2, <2>2, <2>5 DEF Lists!Tick, ListInv, ListBounds, Lists!ListRecent
<1>3. CASE Lists!Turn
  BY <1>3 DEF Lists!Turn, ListInv, Lists!TypeOK, ListEntriesDated, Lists!ListRecent,
         ListBounds, ListDated
<1>4. ASSUME NEW p \in puts, Lists!ApplyPut(p)
      PROVE  ListInv'
  <2>1. p \in Lists!Puts /\ ListDated(p.entry)
    BY DEF ListInv, Lists!TypeOK, ListEntriesDated
  <2>2. p.key \in Lists!Keys /\ p.entry \in Lists!Entries
    BY <2>1 DEF Lists!Puts
  <2>3. [entry |-> p.entry, gone |-> now + Ttl] \in Lists!Held
    BY <1>1, <2>2 DEF Lists!Held
  <2>4. kv' \in [Lists!Keys -> {Lists!Missing} \cup Lists!Held]
    BY <1>4, <2>3 DEF Lists!ApplyPut, ListInv, Lists!TypeOK
  <2>5. Lists!TypeOK'
    BY <1>4, <2>4 DEF Lists!ApplyPut, ListInv, Lists!TypeOK
  <2>6. \A k \in Lists!Keys : kv'[k] # Lists!Missing => ListDated(kv'[k].entry)
    BY <1>4, <2>1 DEF Lists!ApplyPut, ListInv, Lists!TypeOK, ListEntriesDated
  <2>7. ListEntriesDated'
    BY <1>4, <2>6 DEF Lists!ApplyPut, ListInv, ListEntriesDated, ListDated
  <2> QED
    BY <1>4, <2>5, <2>7 DEF Lists!ApplyPut, ListInv, ListBounds, Lists!ListRecent
<1>5. ASSUME NEW p \in puts, Lists!LosePut(p)
      PROVE  ListInv'
  BY <1>5 DEF Lists!LosePut, ListInv, Lists!TypeOK, ListEntriesDated, Lists!ListRecent,
         ListBounds, ListDated
<1>6. ASSUME NEW k \in Lists!Keys, Lists!Drop(k)
      PROVE  ListInv'
  <2>1. Lists!TypeOK'
    BY <1>6 DEF Lists!Drop, ListInv, Lists!TypeOK
  <2>2. \A j \in Lists!Keys : kv'[j] # Lists!Missing => kv'[j] = kv[j]
    BY <1>6 DEF Lists!Drop, ListInv, Lists!TypeOK
  <2>3. ListEntriesDated'
    BY <1>6, <2>2 DEF Lists!Drop, ListInv, ListEntriesDated, ListDated
  <2> QED
    BY <1>6, <2>1, <2>3 DEF Lists!Drop, ListInv, ListBounds, Lists!ListRecent
<1> QED
  BY <1>2, <1>3, <1>4, <1>5, <1>6

(* Every method begins with a look into one of the keys.                     *)
LEMMA ListRequestKeeps == ASSUME ListInv, NEW c \in Askers, Lists!Request(c) PROVE ListInv'
<1>1. PICK first \in Lists!Keys : Lists!Ask(c, first)
  <2>1. "full" \in Lists!Keys
    BY DEF Lists!Keys
  <2> QED
    BY <2>1 DEF Lists!Request, Lists!AskRanking, Lists!getGainers, Lists!getLosers,
           Lists!getActives, Lists!getScreener,
      Lists!getSectorsPerformance, Lists!getMarketStatus, Lists!getSocialSentiment,
             Lists!getCryptoQuotes,
      Lists!getEarningsCalendar, Lists!getDividendCalendar, Lists!getIPOCalendar,
             Lists!getStockSplitCalendar
<1>2. [st |-> first, hours |-> ~closed] \in Lists!Requests
  BY DEF ListInv, Lists!TypeOK, Lists!Requests, Lists!Keys, Lists!Steps
<1>3. req' \in [Askers -> {Lists!Idle} \cup Lists!Requests]
  BY <1>1, <1>2 DEF Lists!Ask, ListInv, Lists!TypeOK
<1>4. Lists!TypeOK'
  BY <1>1, <1>3 DEF Lists!Ask, ListInv, Lists!TypeOK
<1> QED
  BY <1>1, <1>4 DEF Lists!Ask, ListInv, ListBounds, ListEntriesDated, ListDated, Lists!ListRecent

(* The age of an entry that is held.                                         *)
LEMMA ListHeldAge ==
    ASSUME ListInv, NEW k \in Lists!Keys, kv[k] # Lists!Missing
    PROVE  /\ now - kv[k].entry.made \in 0..MaxTime
           /\ Lists!Fresh(kv[k].entry) => now - kv[k].entry.made <= Ttl
<1>1. now \in 0..MaxTime /\ Ttl \in Nat /\ MaxTime \in Nat
  BY DEF ListInv, Lists!TypeOK, ListBounds
<1>2. kv[k].entry \in Lists!Entries /\ ListDated(kv[k].entry)
  BY ListHeldEntry
<1> QED
  BY <1>1, <1>2 DEF Lists!Entries, ListDated, Lists!Fresh

(* One step per action of a request.                                         *)
LEMMA ListStepsKeep ==
    ASSUME ListInv, NEW c \in Askers,
           \/ Lists!ReadCache(c) \/ Lists!ReadFails(c)
           \/ Lists!ProviderAnswers(c) \/ Lists!ProviderFails(c)
           \/ Lists!Calculate(c) \/ Lists!CalculateFails(c) \/ Lists!ReadStale(c)
    PROVE  ListInv'
<1>1. Lists!OnMiss(c) \in Lists!Steps
  BY DEF Lists!OnMiss, Lists!Steps
<1>2. Lists!CacheKeys \in SUBSET Lists!Keys /\ Lists!Keys \in SUBSET Lists!Keys
  BY DEF Lists!CacheKeys, Lists!Keys
<1>3. 0 \in 0..MaxTime
  BY DEF ListInv, ListBounds
<1>4. CASE Lists!ReadCache(c)
  <2>1. req[c].st # "idle" /\ req[c].st \in Lists!Keys /\ ListGrows
    BY <1>4, ListNothingGrows DEF Lists!ReadCache, Lists!Keys
  <2>2. CASE Lists!Step(c, Lists!OnMiss(c))
    BY <1>1, <2>1, <2>2, ListStepKeeps
  <2>3. CASE /\ Lists!Found(req[c].st) /\ Lists!Fresh(kv[req[c].st].entry)
             /\ Lists!Answer(c, "cache", now - kv[req[c].st].entry.made)
    <3>1. PICK age \in 0..MaxTime : age = now - kv[req[c].st].entry.made /\ age <= Ttl
      BY <2>1, <2>3, ListHeldAge DEF Lists!Found
    <3>2. Lists!Answer(c, "cache", age)
      BY <2>3, <3>1
    <3> QED
      BY <2>1, <3>1, <3>2, ListAnswerKeeps
  <2> QED
    BY <1>4, <2>2, <2>3 DEF Lists!ReadCache
<1>5. CASE Lists!ReadFails(c)
  BY <1>1, <1>5, ListNothingGrows, ListStepKeeps DEF Lists!ReadFails, Lists!Keys
<1>6. CASE Lists!ProviderAnswers(c)
  <2>1. req[c].st # "idle" /\ ListGrows
    BY <1>2, <1>6, ListPutAllGrows DEF Lists!ProviderAnswers
  <2>2. Lists!Answer(c, "provider", 0)
    BY <1>6 DEF Lists!ProviderAnswers
  <2> QED
    BY <1>3, <2>1, <2>2, ListAnswerKeeps
<1>7. CASE Lists!ProviderFails(c)
  <2>1. PICK s \in Lists!Steps : Lists!Step(c, s)
    BY <1>7 DEF Lists!ProviderFails, Lists!Steps
  <2> QED
    BY <1>7, <2>1, ListNothingGrows, ListStepKeeps DEF Lists!ProviderFails
<1>8. CASE Lists!Calculate(c)
  <2>1. req[c].st # "idle" /\ ListGrows
    BY <1>2, <1>8, ListPutAllGrows DEF Lists!Calculate
  <2>2. Lists!Answer(c, "calculated", 0)
    BY <1>8 DEF Lists!Calculate
  <2> QED
    BY <1>3, <2>1, <2>2, ListAnswerKeeps
<1>9. CASE Lists!CalculateFails(c)
  <2>1. Lists!Step(c, "stale") /\ "stale" \in Lists!Steps
    BY <1>9 DEF Lists!CalculateFails, Lists!Steps
  <2> QED
    BY <1>9, <2>1, ListNothingGrows, ListStepKeeps DEF Lists!CalculateFails
<1>10. CASE Lists!ReadStale(c)
  <2>1. req[c].st # "idle" /\ ListGrows
    BY <1>10, ListNothingGrows DEF Lists!ReadStale
  <2>2. CASE Lists!Answer(c, "empty", 0)
    BY <1>3, <2>1, <2>2, ListAnswerKeeps
  <2>3. CASE Lists!Found("full") /\ Lists!Answer(c, "stale", now - kv["full"].entry.made)
    <3>1. PICK age \in 0..MaxTime : age = now - kv["full"].entry.made
      BY <2>3, ListHeldAge DEF Lists!Found, Lists!Keys
    <3>2. Lists!Answer(c, "stale", age)
      BY <2>3, <3>1
    <3> QED
      BY <2>1, <3>2, ListAnswerKeeps
  <2> QED
    BY <1>10, <2>2, <2>3 DEF Lists!ReadStale
<1> QED
  BY <1>4, <1>5, <1>6, <1>7, <1>8, <1>9, <1>10

(* The invariant is inductive.                                               *)
LEMMA ListNextKeeps == ASSUME ListInv, [Lists!Next]_(Lists!vars) PROVE ListInv'
<1>1. CASE UNCHANGED Lists!vars
  BY <1>1 DEF Lists!vars, ListInv, ListBounds, Lists!TypeOK, ListEntriesDated, ListDated,
         Lists!ListRecent
<1> QED
  BY <1>1, ListWorldKeeps, ListRequestKeeps, ListStepsKeep DEF Lists!Next
-----------------------------------------------------------------------------
(* The quotes (QuoteCache).  Everything that can still be shown has been     *)
(* stored: the stamp of each copy, of each quote past its INSERT, and the    *)
(* newest one shown are stamps of rows, and rows are not deleted.            *)
QuoteStored ==
    /\ \A i \in Isolates : cache[i] # None => cache[i].stamp \in prices
    /\ \A c \in Clients : req[c].st = "stored" => req[c].stamp \in prices
    /\ shown # Quotes!Unstamped => shown \in prices

QuoteStamped == \A c \in Clients : req[c].st = "insert" => req[c].stamp \in 0..MaxTime

QuoteInv == Quotes!TypeOK /\ QuoteStored /\ QuoteStamped /\ Quotes!StaleIsNewestShown

-----------------------------------------------------------------------------
(* What a step of a request does besides: rows are added, and a copy replaced *)
(* by one that is stored.                                                    *)
QuoteGrows ==
    /\ UNCHANGED <<now, market>>
    /\ prices \subseteq prices' /\ prices' \subseteq 0..MaxTime
    /\ cache' \in [Isolates -> {None} \cup [stamp : 0..MaxTime, at : 0..MaxTime]]
    /\ \A i \in Isolates : cache'[i] # None => cache'[i].stamp \in prices'

(* A step that leaves the rows and the copies alone.                         *)
LEMMA QuoteNothingGrows == ASSUME QuoteInv, UNCHANGED <<now, market, prices, cache>>
       PROVE QuoteGrows
BY DEF QuoteInv, Quotes!TypeOK, QuoteStored, QuoteGrows

(* A step without an answer claims nothing.                                  *)
LEMMA QuoteNothingSaid ==
    /\ Quotes!NoAnswer \in Quotes!FromTable
    /\ last' = Quotes!NoAnswer => Quotes!StaleIsNewestShown'
BY DEF Quotes!NoAnswer, Quotes!FromTable, Quotes!Stamps, Quotes!StaleIsNewestShown

(* A request in progress is a record with the fields of its shape.           *)
LEMMA QuoteWorking ==
    ASSUME Quotes!TypeOK, NEW c \in Clients, req[c].st # "idle"
    PROVE  req[c] \in Quotes!Requests
<1>1. req[c] \in {Quotes!Idle} \cup Quotes!Requests
  BY DEF Quotes!TypeOK
<1>2. Quotes!Idle.st = "idle"
  BY DEF Quotes!Idle
<1> QED
  BY <1>1, <1>2

(* The next step of a request: past its INSERT its stamp is that of a row.   *)
LEMMA QuoteStepKeeps ==
    ASSUME QuoteInv, NEW c \in Clients, req[c].st # "idle",
           NEW s \in Quotes!Steps, NEW q \in Quotes!Stamps,
           s = "insert" => q \in 0..MaxTime, s = "stored" => q \in prices',
           req' = [req EXCEPT ![c].st = s, ![c].stamp = q],
           last' = Quotes!NoAnswer, UNCHANGED shown, QuoteGrows
    PROVE  QuoteInv'
<1>1. req[c] \in Quotes!Requests
  BY QuoteWorking DEF QuoteInv
<1>2. \A d \in Clients : req'[d] = IF d = c THEN [req[c] EXCEPT !.st = s, !.stamp = q]
                                   ELSE req[d]
  BY DEF QuoteInv, Quotes!TypeOK
<1>3. req' \in [Clients -> {Quotes!Idle} \cup Quotes!Requests]
  <2>1. [req[c] EXCEPT !.st = s, !.stamp = q] \in Quotes!Requests
    BY <1>1 DEF Quotes!Requests
  <2> QED
    BY <2>1 DEF QuoteInv, Quotes!TypeOK
<1>4. Quotes!TypeOK'
  BY <1>3, QuoteNothingSaid DEF QuoteInv, Quotes!TypeOK, QuoteGrows
<1>6. QuoteStored'
  <2>1. [req[c] EXCEPT !.st = s, !.stamp = q].st = s
        /\ [req[c] EXCEPT !.st = s, !.stamp = q].stamp = q
    BY <1>1 DEF Quotes!Requests
  <2>2. \A d \in Clients \ {c} : req'[d].st = "stored" => req'[d].stamp \in prices
    BY <1>2 DEF QuoteInv, QuoteStored
  <2>3. \A d \in Clients : req'[d].st = "stored" => req'[d].stamp \in prices'
    BY <1>2, <2>1, <2>2 DEF QuoteGrows
  <2> QED
    BY <2>3 DEF QuoteInv, QuoteStored, QuoteGrows
<1>7. QuoteStamped'
  <2>1. [req[c] EXCEPT !.st = s, !.stamp = q].st = s
        /\ [req[c] EXCEPT !.st = s, !.stamp = q].stamp = q
    BY <1>1 DEF Quotes!Requests
  <2> QED
    BY <1>2, <2>1 DEF QuoteInv, QuoteStamped
<1>5. Quotes!StaleIsNewestShown'
  BY QuoteNothingSaid
<1> QED
  BY <1>4, <1>5, <1>6, <1>7 DEF QuoteInv

(* An answer that shows nothing, or what a copy or a row has.                *)
LEMMA QuoteAnswerKeeps ==
    ASSUME QuoteInv, NEW c \in Clients, NEW q \in prices' \cup {Quotes!Unstamped},
           Quotes!Answer(c, q), QuoteGrows
    PROVE  QuoteInv'
<1>1. \A d \in Clients : req'[d] = IF d = c THEN Quotes!Idle ELSE req[d]
  BY DEF QuoteInv, Quotes!TypeOK, Quotes!Answer
<1>2. shown' \in {shown, q} /\ last' = Quotes!NoAnswer
  BY DEF Quotes!Answer
<1>3. Quotes!TypeOK'
  <2>1. req' \in [Clients -> {Quotes!Idle} \cup Quotes!Requests]
    BY DEF Quotes!Answer, QuoteInv, Quotes!TypeOK
  <2>2. q \in Quotes!Stamps
    BY DEF QuoteGrows, Quotes!Stamps
  <2>3. shown' \in Quotes!Stamps
    BY <1>2, <2>2 DEF QuoteInv, Quotes!TypeOK
  <2> QED
    BY <1>2, <2>1, <2>3, QuoteNothingSaid DEF QuoteInv, Quotes!TypeOK, QuoteGrows
<1>4. QuoteStored'
  <2>1. \A d \in Clients : req'[d].st = "stored" => req'[d].stamp \in prices
    BY <1>1 DEF QuoteInv, QuoteStored, Quotes!Idle
  <2>2. shown' # Quotes!Unstamped => shown' \in prices'
    <3>1. shown # Quotes!Unstamped => shown \in prices'
      BY DEF QuoteInv, QuoteStored, QuoteGrows
    <3>2. CASE shown' = shown
      BY <3>1, <3>2
    <3>3. CASE shown' = q
      BY <3>3
    <3> QED
      BY <1>2, <3>2, <3>3
  <2> QED
    BY <2>1, <2>2 DEF QuoteStored, QuoteGrows
<1>5. Quotes!StaleIsNewestShown'
  BY <1>2, QuoteNothingSaid
<1>6. QuoteStamped'
  BY <1>1 DEF QuoteInv, QuoteStamped, Quotes!Idle
<1> QED
  BY <1>3, <1>4, <1>5, <1>6 DEF QuoteInv

(* "No price available": without a row, or when the read of the rows failed.  *)
LEMMA QuoteAnswerMissingKeeps ==
    ASSUME QuoteInv, NEW c \in Clients, NEW lost \in BOOLEAN,
           lost \/ prices = {}, Quotes!AnswerMissing(c, lost), QuoteGrows
    PROVE  QuoteInv'
<1>1. \A d \in Clients : req'[d] = IF d = c THEN Quotes!Idle ELSE req[d]
  BY DEF Quotes!AnswerMissing, QuoteInv, Quotes!TypeOK
<1>2. Quotes!TypeOK'
  <2>1. req' \in [Clients -> {Quotes!Idle} \cup Quotes!Requests]
    BY DEF Quotes!AnswerMissing, QuoteInv, Quotes!TypeOK
  <2>2. last' \in Quotes!FromTable
    BY DEF Quotes!AnswerMissing, Quotes!FromTable, Quotes!Stamps, QuoteInv, Quotes!TypeOK
  <2> QED
    BY <2>1, <2>2 DEF Quotes!AnswerMissing, QuoteInv, Quotes!TypeOK, QuoteGrows
<1>3. QuoteStored'
  <2>1. \A d \in Clients : req'[d].st = "stored" => req'[d].stamp \in prices
    BY <1>1 DEF QuoteInv, QuoteStored, Quotes!Idle
  <2> QED
    BY <2>1 DEF Quotes!AnswerMissing, QuoteInv, QuoteStored, QuoteGrows
<1>4. QuoteStamped'
  BY <1>1 DEF QuoteInv, QuoteStamped, Quotes!Idle
<1>5. Quotes!StaleIsNewestShown'
  BY DEF Quotes!AnswerMissing, QuoteInv, QuoteStored, Quotes!StaleIsNewestShown
<1> QED
  BY <1>2, <1>3, <1>4, <1>5 DEF QuoteInv

(* The answer read in the table: the newest row, and nothing shown is newer.  *)
LEMMA QuoteAnswerRowKeeps ==
    ASSUME MaxTime \in Nat, QuoteInv, NEW c \in Clients, NEW newest \in Quotes!getLatestFromDb,
           Quotes!AnswerRow(c, newest), QuoteGrows
    PROVE  QuoteInv'
<1>1. \A d \in Clients : req'[d] = IF d = c THEN Quotes!Idle ELSE req[d]
  BY DEF Quotes!AnswerRow, QuoteInv, Quotes!TypeOK
<1>2. newest \in prices /\ \A q \in prices : q <= newest
  BY DEF Quotes!getLatestFromDb
<1>3. newest \in 0..MaxTime /\ newest \in Quotes!Stamps
  BY <1>2 DEF QuoteInv, Quotes!TypeOK, Quotes!Stamps
<1>4. shown' \in {shown, newest}
  BY DEF Quotes!AnswerRow
<1>5. Quotes!TypeOK'
  <2>1. req' \in [Clients -> {Quotes!Idle} \cup Quotes!Requests]
    BY DEF Quotes!AnswerRow, QuoteInv, Quotes!TypeOK
  <2>2. last' \in Quotes!FromTable
    BY <1>3 DEF Quotes!AnswerRow, Quotes!FromTable, QuoteInv, Quotes!TypeOK
  <2> QED
    BY <1>3, <1>4, <2>1, <2>2 DEF QuoteInv, Quotes!TypeOK, QuoteGrows
<1>6. QuoteStored'
  <2>1. \A d \in Clients : req'[d].st = "stored" => req'[d].stamp \in prices
    BY <1>1 DEF QuoteInv, QuoteStored, Quotes!Idle
  <2>2. shown' # Quotes!Unstamped => shown' \in prices
    BY <1>2, <1>4 DEF QuoteInv, QuoteStored
  <2> QED
    BY <2>1, <2>2 DEF QuoteInv, QuoteStored, QuoteGrows
<1>7. QuoteStamped'
  BY <1>1 DEF QuoteInv, QuoteStamped, Quotes!Idle
<1>8. shown <= newest
  <2>1. CASE shown = Quotes!Unstamped
    BY <1>3, <2>1 DEF Quotes!Unstamped
  <2>2. CASE shown # Quotes!Unstamped
    BY <1>2, <2>2 DEF QuoteInv, QuoteStored
  <2> QED
    BY <2>1, <2>2
<1>9. Quotes!StaleIsNewestShown'
  <2>1. last'.how = "row" /\ last'.stamp = newest /\ last'.floor = shown
    BY DEF Quotes!AnswerRow
  <2> QED
    BY <1>3, <1>8, <2>1 DEF Quotes!StaleIsNewestShown, QuoteInv, Quotes!TypeOK,
           Quotes!Stamps, Quotes!Unstamped
<1> QED
  BY <1>5, <1>6, <1>7, <1>9 DEF QuoteInv

LEMMA QuoteAnswerStoredKeeps ==
    ASSUME MaxTime \in Nat, QuoteInv, NEW c \in Clients, Quotes!AnswerStored(c), QuoteGrows
    PROVE  QuoteInv'
BY QuoteAnswerMissingKeeps, QuoteAnswerRowKeeps DEF Quotes!AnswerStored

(* An error: nothing is shown by it, and get-stock reads the table next.     *)
LEMMA QuoteOnErrorKeeps ==
    ASSUME QuoteInv, NEW c \in Clients, req[c].st # "idle", Quotes!OnError(c), QuoteGrows
    PROVE  QuoteInv'
<1>1. CASE Quotes!AnswerNothing(c)
  BY <1>1, QuoteAnswerKeeps DEF Quotes!AnswerNothing
<1>2. CASE /\ req' = [req EXCEPT ![c].st = "fallback", ![c].stamp = Quotes!Unstamped]
           /\ last' = Quotes!NoAnswer /\ UNCHANGED shown
  BY <1>2, QuoteStepKeeps DEF Quotes!Steps, Quotes!Stamps
<1> QED
  BY <1>1, <1>2 DEF Quotes!OnError

(* A step that only moves the request on keeps its stamp.                    *)
LEMMA QuoteMoveKeeps ==
    ASSUME QuoteInv, NEW c \in Clients, req[c].st # "idle",
           NEW s \in Quotes!Steps \ {"insert", "stored"}, Quotes!Step(c, s), QuoteGrows
    PROVE  QuoteInv'
<1>1. req[c] \in Quotes!Requests
  BY QuoteWorking DEF QuoteInv
<1>2. [req[c] EXCEPT !.st = s] = [req[c] EXCEPT !.st = s, !.stamp = req[c].stamp]
  BY <1>1 DEF Quotes!Requests
<1>3. req' = [req EXCEPT ![c].st = s, ![c].stamp = req[c].stamp]
  BY <1>2 DEF Quotes!Step
<1>4. PICK q \in Quotes!Stamps : q = req[c].stamp
  BY <1>1 DEF Quotes!Requests
<1>5. req' = [req EXCEPT ![c].st = s, ![c].stamp = q]
  BY <1>3, <1>4
<1>6. last' = Quotes!NoAnswer /\ UNCHANGED shown
  BY DEF Quotes!Step
<1>7. s \in Quotes!Steps /\ s # "insert" /\ s # "stored"
  OBVIOUS
<1> QED
  BY <1>5, <1>6, <1>7, QuoteStepKeeps

-----------------------------------------------------------------------------
(* Nothing is stored and nothing shown at the start.                         *)
LEMMA QuoteInitially == ASSUME MaxTime \in Nat, Quotes!Init PROVE QuoteInv
<1>1. Quotes!Init => Quotes!TypeOK
  BY QuoteNothingSaid DEF Quotes!Init, Quotes!TypeOK, Quotes!Stamps
<1>2. Quotes!Init => QuoteStored
  BY DEF Quotes!Init, QuoteStored, Quotes!Idle
<1>3. Quotes!Init => Quotes!StaleIsNewestShown
  BY DEF Quotes!Init, Quotes!StaleIsNewestShown, Quotes!NoAnswer
<1>4. Quotes!Init => QuoteStamped
  BY DEF Quotes!Init, QuoteStamped, Quotes!Idle
<1> QED
  BY <1>1, <1>2, <1>3, <1>4 DEF QuoteInv

(* The world around the requests: the clock, the price, lost isolates.       *)
LEMMA QuoteWorldKeeps ==
    ASSUME MaxTime \in Nat, QuoteInv,
           Quotes!Tick \/ Quotes!Trade \/ \E i \in Isolates : Quotes!Evict(i)
    PROVE  QuoteInv'
<1> USE DEF QuoteInv
<1>1. CASE Quotes!Tick \/ Quotes!Trade
  <2>1. now' \in 0..MaxTime /\ market' \in 0..MaxTime
    <3>1. now \in 0..MaxTime /\ market \in 0..MaxTime
      BY DEF Quotes!TypeOK
    <3> QED
      BY <1>1, <3>1 DEF Quotes!Tick, Quotes!Trade
  <2>2. last' = Quotes!NoAnswer /\ UNCHANGED <<prices, cache, req, shown>>
    BY <1>1 DEF Quotes!Tick, Quotes!Trade
  <2>3. Quotes!TypeOK'
    BY <2>1, <2>2, QuoteNothingSaid DEF Quotes!TypeOK
  <2> QED
    BY <2>2, <2>3, QuoteNothingSaid DEF QuoteStored, QuoteStamped
<1>2. ASSUME NEW i \in Isolates, Quotes!Evict(i)
      PROVE  QuoteInv'
  <2>1. Quotes!TypeOK'
    BY <1>2, QuoteNothingSaid DEF Quotes!TypeOK, Quotes!Evict
  <2>2. \A j \in Isolates : cache'[j] # None => cache'[j] = cache[j]
    BY <1>2 DEF Quotes!TypeOK, Quotes!Evict
  <2>3. \A c \in Clients : req'[c].st = "stored" => req'[c] = req[c]
    BY <1>2 DEF Quotes!Evict, Quotes!Idle
  <2>4. QuoteStored'
    <3>1. \A j \in Isolates : cache'[j] # None => cache'[j].stamp \in prices
      BY <2>2 DEF QuoteStored
    <3>2. \A c \in Clients : req'[c].st = "stored" => req'[c].stamp \in prices
      BY <2>3 DEF QuoteStored
    <3> QED
      BY <3>1, <3>2, <1>2 DEF QuoteStored, Quotes!Evict
  <2>5. Quotes!StaleIsNewestShown'
    BY <1>2, QuoteNothingSaid DEF Quotes!Evict
  <2>6. QuoteStamped'
    BY <1>2 DEF QuoteStamped, Quotes!Evict, Quotes!Idle
  <2> QED
    BY <2>1, <2>4, <2>5, <2>6
<1> QED
  BY <1>1, <1>2

(* A copy may be shown: it was stored.                                       *)
LEMMA QuoteCopyKeeps ==
    ASSUME QuoteInv, NEW c \in Clients, req[c].st # "idle", Quotes!Copy(c) # None,
           Quotes!Answer(c, Quotes!Copy(c).stamp), QuoteGrows
    PROVE  QuoteInv'
<1>1. req[c].home \in Isolates
  BY QuoteWorking DEF QuoteInv, Quotes!Requests
<1>2. Quotes!Copy(c).stamp \in prices
  BY <1>1 DEF QuoteInv, QuoteStored, Quotes!Copy
<1>3. Quotes!Copy(c).stamp \in prices' \cup {Quotes!Unstamped}
  BY <1>2 DEF QuoteGrows
<1> QED
  BY <1>3, QuoteAnswerKeeps

(* A request that begins has no quote.                                       *)
LEMMA QuoteBeginKeeps ==
    ASSUME QuoteInv, NEW c \in Clients, NEW i \in Isolates, Quotes!GetStock(c,
           i) \/ Quotes!GetStocks(c, i)
    PROVE  QuoteInv'
<1>1. PICK s \in {"check", "service"}, b \in BOOLEAN : Quotes!Begin(c, i, s, b)
  BY DEF Quotes!GetStock, Quotes!GetStocks
<1>2. [st |-> s, home |-> i, batch |-> b, stamp |-> Quotes!Unstamped] \in Quotes!Requests
  BY DEF Quotes!Requests, Quotes!Steps, Quotes!Stamps
<1>3. Quotes!TypeOK'
  BY <1>1, <1>2, QuoteNothingSaid DEF Quotes!Begin, QuoteInv, Quotes!TypeOK
<1>4. \A d \in Clients : req'[d].st = "stored" => req'[d].stamp \in prices
  BY <1>1 DEF Quotes!Begin, QuoteInv, QuoteStored, Quotes!TypeOK
<1>5. QuoteStored'
  BY <1>1, <1>4 DEF Quotes!Begin, QuoteInv, QuoteStored
<1>6. Quotes!StaleIsNewestShown'
  BY <1>1, QuoteNothingSaid DEF Quotes!Begin
<1>7. QuoteStamped'
  BY <1>1 DEF Quotes!Begin, QuoteInv, QuoteStamped, Quotes!TypeOK
<1> QED
  BY <1>3, <1>5, <1>6, <1>7 DEF QuoteInv

(* One step per action of a request.                                         *)
LEMMA QuoteRequestKeeps ==
    ASSUME MaxTime \in Nat, QuoteInv, NEW c \in Clients,
           \/ Quotes!CheckCopy(c) \/ Quotes!CheckHours(c) \/ Quotes!CheckCopyAgain(c)
           \/ Quotes!ReadLatest(c)
           \/ Quotes!Fetch(c) \/ Quotes!FetchFails(c) \/ Quotes!FetchProfile(c)
           \/ Quotes!insertQuote(c) \/ Quotes!InsertFails(c) \/ Quotes!setCache(c)
           \/ Quotes!Simulated(c) \/ Quotes!handleProviderFailure(c) \/ Quotes!ReadFails(c)
    PROVE  QuoteInv'
<1>1. CASE Quotes!CheckCopy(c)
  <2>1. req[c].st # "idle" /\ QuoteGrows
    BY <1>1, QuoteNothingGrows DEF Quotes!CheckCopy
  <2>2. CASE Quotes!Copy(c) # None /\ Quotes!Answer(c, Quotes!Copy(c).stamp)
    BY <2>1, <2>2, QuoteCopyKeeps
  <2>3. ASSUME NEW s \in {"simulated", "service"}, Quotes!Step(c, s)
        PROVE  QuoteInv'
    BY <2>1, <2>3, QuoteMoveKeeps DEF Quotes!Steps
  <2> QED
    BY <1>1, <2>2, <2>3 DEF Quotes!CheckCopy, Quotes!getCacheIfValid
<1>2. CASE Quotes!CheckHours(c)
  <2>1. req[c].st # "idle" /\ QuoteGrows
    BY <1>2, QuoteNothingGrows DEF Quotes!CheckHours
  <2>2. CASE Quotes!Step(c, "repo")
    BY <2>1, <2>2, QuoteMoveKeeps DEF Quotes!Steps
  <2>3. CASE Quotes!Copy(c) # None /\ Quotes!Answer(c, Quotes!Copy(c).stamp)
    BY <2>1, <2>3, QuoteCopyKeeps
  <2>4. CASE Quotes!OnError(c)
    BY <2>1, <2>4, QuoteOnErrorKeeps
  <2> QED
    BY <1>2, <2>2, <2>3, <2>4 DEF Quotes!CheckHours
<1>3. CASE Quotes!CheckCopyAgain(c)
  <2>1. req[c].st # "idle" /\ QuoteGrows
    BY <1>3, QuoteNothingGrows DEF Quotes!CheckCopyAgain
  <2>2. CASE Quotes!Step(c, "db")
    BY <2>1, <2>2, QuoteMoveKeeps DEF Quotes!Steps
  <2>3. CASE Quotes!Copy(c) # None /\ Quotes!Answer(c, Quotes!Copy(c).stamp)
    BY <2>1, <2>3, QuoteCopyKeeps
  <2>4. CASE Quotes!OnError(c)
    BY <2>1, <2>4, QuoteOnErrorKeeps
  <2> QED
    BY <1>3, <2>2, <2>3, <2>4 DEF Quotes!CheckCopyAgain, Quotes!getCacheIfValid
<1>4. CASE Quotes!ReadLatest(c)
  <2>1. req[c].st # "idle" /\ QuoteGrows
    BY <1>4, QuoteNothingGrows DEF Quotes!ReadLatest
  <2>2. CASE Quotes!Step(c, "fetch")
    BY <2>1, <2>2, QuoteMoveKeeps DEF Quotes!Steps
  <2>3. CASE Quotes!AnswerStored(c)
    BY <2>1, <2>3, QuoteAnswerStoredKeeps
  <2>4. CASE Quotes!OnError(c)
    BY <2>1, <2>4, QuoteOnErrorKeeps
  <2> QED
    BY <1>4, <2>2, <2>3, <2>4 DEF Quotes!ReadLatest
<1>5. CASE Quotes!Fetch(c)
  <2>1. req[c].st # "idle" /\ QuoteGrows
    BY <1>5, QuoteNothingGrows DEF Quotes!Fetch
  <2>2. PICK q \in {market, Quotes!Unstamped} : req' = [req EXCEPT ![c].st = "profile",
         ![c].stamp = q]
    BY <1>5 DEF Quotes!Fetch
  <2>3. q \in Quotes!Stamps
    BY DEF QuoteInv, Quotes!TypeOK, Quotes!Stamps
  <2>4. last' = Quotes!NoAnswer /\ UNCHANGED shown
    BY <1>5 DEF Quotes!Fetch
  <2> QED
    BY <2>1, <2>2, <2>3, <2>4, QuoteStepKeeps DEF Quotes!Steps
<1>6. CASE Quotes!FetchFails(c)
  BY <1>6, QuoteNothingGrows, QuoteOnErrorKeeps DEF Quotes!FetchFails
<1>7. CASE Quotes!FetchProfile(c)
  <2>1. req[c].st # "idle" /\ QuoteGrows
    BY <1>7, QuoteNothingGrows DEF Quotes!FetchProfile
  <2>2. Quotes!Mapped(c) \in 0..MaxTime
    <3>1. req[c].stamp \in Quotes!Stamps /\ now \in 0..MaxTime
      BY <2>1, QuoteWorking DEF QuoteInv, Quotes!TypeOK, Quotes!Requests
    <3> QED
      BY <3>1 DEF Quotes!Mapped, Quotes!Stamps
  <2>3. PICK q \in Quotes!Stamps : q = Quotes!Mapped(c)
    BY <2>2 DEF Quotes!Stamps
  <2>4. req' = [req EXCEPT ![c].st = "insert", ![c].stamp = q]
        /\ last' = Quotes!NoAnswer /\ UNCHANGED shown
    BY <1>7, <2>3 DEF Quotes!FetchProfile
  <2>5. "insert" \in Quotes!Steps /\ q \in 0..MaxTime
    BY <2>2, <2>3 DEF Quotes!Steps
  <2> QED
    BY <2>1, <2>4, <2>5, QuoteStepKeeps
<1>8. CASE Quotes!insertQuote(c)
  <2>1. req[c] \in Quotes!Requests /\ req[c].stamp \in 0..MaxTime
    BY <1>8, QuoteWorking DEF Quotes!insertQuote, QuoteInv, QuoteStamped
  <2>2. QuoteGrows
    BY <1>8, <2>1 DEF Quotes!insertQuote, QuoteGrows, QuoteInv, Quotes!TypeOK, QuoteStored
  <2>3. PICK q \in Quotes!Stamps : q = req[c].stamp
    BY <2>1 DEF Quotes!Requests
  <2>4. [req[c] EXCEPT !.st = "stored"] = [req[c] EXCEPT !.st = "stored", !.stamp = q]
    BY <2>1, <2>3 DEF Quotes!Requests
  <2>5. req' = [req EXCEPT ![c].st = "stored", ![c].stamp = q]
        /\ last' = Quotes!NoAnswer /\ UNCHANGED shown
    BY <1>8, <2>4 DEF Quotes!insertQuote, Quotes!Step
  <2>6. "stored" \in Quotes!Steps /\ q \in prices' /\ req[c].st # "idle"
    BY <1>8, <2>3 DEF Quotes!insertQuote, Quotes!Steps
  <2> QED
    BY <2>2, <2>5, <2>6, QuoteStepKeeps
<1>9. CASE Quotes!InsertFails(c)
  <2>1. req[c].stamp \in 0..MaxTime /\ req[c].st # "idle"
    BY <1>9 DEF Quotes!InsertFails, QuoteInv, QuoteStamped
  <2>2. QuoteGrows
    BY <1>9, <2>1 DEF Quotes!InsertFails, QuoteGrows, QuoteInv, Quotes!TypeOK, QuoteStored
  <2> QED
    BY <1>9, <2>1, <2>2, QuoteOnErrorKeeps DEF Quotes!InsertFails
<1>10. CASE Quotes!setCache(c)
  <2>1. req[c].st # "idle" /\ req[c].stamp \in prices
    BY <1>10 DEF Quotes!setCache, QuoteInv, QuoteStored
  <2>2. req[c].home \in Isolates /\ now \in 0..MaxTime /\ prices \subseteq 0..MaxTime
    BY <2>1, QuoteWorking DEF QuoteInv, Quotes!TypeOK, Quotes!Requests
  <2>3. QuoteGrows
    <3>1. cache' = [cache EXCEPT ![req[c].home] = [stamp |-> req[c].stamp, at |-> now]]
          /\ UNCHANGED <<now, market, prices>>
      BY <1>10 DEF Quotes!setCache
    <3>2. cache' \in [Isolates -> {None} \cup [stamp : 0..MaxTime, at : 0..MaxTime]]
      BY <2>1, <2>2, <3>1 DEF QuoteInv, Quotes!TypeOK
    <3>3. ASSUME NEW i \in Isolates, cache'[i] # None
          PROVE  cache'[i].stamp \in prices
      BY <2>1, <2>2, <3>1, <3>3 DEF QuoteInv, Quotes!TypeOK, QuoteStored
    <3> QED
      BY <2>2, <3>1, <3>2, <3>3 DEF QuoteGrows
  <2>4. CASE Quotes!Answer(c, req[c].stamp)
    <3>1. req[c].stamp \in prices' \cup {Quotes!Unstamped}
      BY <2>1, <2>3 DEF QuoteGrows
    <3> QED
      BY <2>3, <2>4, <3>1, QuoteAnswerKeeps
  <2>5. CASE Quotes!OnError(c)
    BY <2>1, <2>3, <2>5, QuoteOnErrorKeeps
  <2> QED
    BY <1>10, <2>4, <2>5 DEF Quotes!setCache
<1>11. CASE Quotes!Simulated(c) \/ Quotes!handleProviderFailure(c)
  BY <1>11, QuoteNothingGrows, QuoteAnswerStoredKeeps DEF Quotes!Simulated,
         Quotes!handleProviderFailure
<1>12. CASE Quotes!ReadFails(c)
  <2>1. req[c].st # "idle" /\ QuoteGrows
    BY <1>12, QuoteNothingGrows DEF Quotes!ReadFails
  <2>2. CASE Quotes!OnError(c)
    BY <2>1, <2>2, QuoteOnErrorKeeps
  <2>3. CASE Quotes!AnswerMissing(c, TRUE)
    BY <2>1, <2>3, QuoteAnswerMissingKeeps
  <2> QED
    BY <1>12, <2>2, <2>3 DEF Quotes!ReadFails
<1> QED
  BY <1>1, <1>2, <1>3, <1>4, <1>5, <1>6, <1>7, <1>8, <1>9, <1>10, <1>11, <1>12

(* The invariant is inductive.                                               *)
LEMMA QuoteNextKeeps == ASSUME MaxTime \in Nat, QuoteInv, [Quotes!Next]_(Quotes!vars)
       PROVE QuoteInv'
<1>1. CASE Quotes!Tick \/ Quotes!Trade \/ \E i \in Isolates : Quotes!Evict(i)
  BY <1>1, QuoteWorldKeeps
<1>2. CASE \E c \in Clients, i \in Isolates : Quotes!GetStock(c, i) \/ Quotes!GetStocks(c, i)
  BY <1>2, QuoteBeginKeeps
<1>3. ASSUME NEW c \in Clients,
             \/ Quotes!CheckCopy(c) \/ Quotes!CheckHours(c) \/ Quotes!CheckCopyAgain(c)
             \/ Quotes!ReadLatest(c)
             \/ Quotes!Fetch(c) \/ Quotes!FetchFails(c) \/ Quotes!FetchProfile(c)
             \/ Quotes!insertQuote(c) \/ Quotes!InsertFails(c) \/ Quotes!setCache(c)
             \/ Quotes!Simulated(c) \/ Quotes!handleProviderFailure(c) \/ Quotes!ReadFails(c)
      PROVE  QuoteInv'
  BY <1>3, QuoteRequestKeeps
<1>4. CASE UNCHANGED Quotes!vars
  BY <1>4 DEF Quotes!vars, QuoteInv, Quotes!TypeOK, QuoteStored, QuoteStamped,
         Quotes!StaleIsNewestShown
<1> QED
  BY <1>1, <1>2, <1>3, <1>4 DEF Quotes!Next
=============================================================================
