--------------------------------- MODULE Lobby ---------------------------------
(* Who is connected and who is waiting: presence (presence.ts), the queue's   *)
(* entries and sorted sets (queue.repository.ts), and the scans that pair     *)
(* waiting users (matchmaker.ts), each Redis command or MULTI a step.         *)
(*                                                                           *)
(* A pairing commits here in one step, the one Matchmaking refines. A user    *)
(* with no tab in Tab is connected all the time.                              *)
EXTENDS Selection

CONSTANTS
    User,
    Tab, Owner,    \* sockets that come and go, and whose they are
    Early,         \* the sockets that are connected at first
    Attempt,       \* calls of tryMatch that may run at once
    Home, Move,    \* the country of each profile, and one it may be changed to
    Profile,       \* what else a snapshot holds: suits, wants, interests, excluded
    Met,           \* pairs who were in a match before
    Restless,      \* bound: users who act or whose entry expires; the others wait
    MaxJoins,      \* bound: queue entries written in a behaviour
    None

ASSUME OwnerAssumption == Owner \in [Tab -> User]
ASSUME UserAssumption  == User \subseteq Nat /\ None \notin User
ASSUME BoundAssumption == MaxJoins \in Nat /\ Early \subseteq Tab

VARIABLES
    country,           \* of each profile, in the database
    entry, zset,       \* the queue: a snapshot by user, the members of a shard
    recent,            \* recent partners
    open,              \* tabs with a live socket
    sockets, online,   \* userSockets, the online set
    req, bye,          \* handlers: queue:join or queue:leave by user, disconnect by tab
    scan,              \* tryMatch by attempt
    joins,             \* entries written
    fresh              \* sockets that have yet to connect

profile == country
queue   == <<entry, zset, recent>>
presence == <<sockets, online>>
tasks   == <<req, bye, scan>>
vars    == <<profile, queue, open, presence, tasks, joins, fresh>>

TabsOf(u) == {t \in Tab : Owner[t] = u}

Connected(u) == TabsOf(u) = {} \/ TabsOf(u) \cap open # {}

NoTask == [pc |-> "idle", country |-> Nowhere]
NoScan == [pc |-> "idle", seeker |-> None, ids |-> {}, pool |-> {}]

Indexed(c) == {Global, shardFor(c)}

Snapshot(u, c, n) ==
    [userId |-> u, country |-> c, since |-> n, waited |-> 0,
     wants |-> Profile[u].wants, suits |-> Profile[u].suits,
     interests |-> Profile[u].interests, excluded |-> Profile[u].excluded,
     recent |-> {v \in User : {u, v} \in Met}]

(* Everybody is connected and waiting. *)
Init ==
    /\ country = Home
    /\ entry = [u \in User |-> Snapshot(u, Home[u], 0)]
    /\ zset = [s \in Shard |-> {u \in User : s \in Indexed(Home[u])}]
    /\ recent = [u \in User |-> {v \in User : {u, v} \in Met}]
    /\ open = Early /\ sockets = [u \in User |-> TabsOf(u) \cap Early]
    /\ online = {Owner[t] : t \in Early}
    /\ req = [u \in User |-> NoTask] /\ bye = [t \in Tab |-> "idle"]
    /\ scan = [a \in Attempt |-> NoScan]
    /\ joins = 0 /\ fresh = Tab \ Early

--------------------------------------------------------------------------------
(* Presence *)

(* A socket connects: one MULTI. *)
Connect(t) ==
    LET u == Owner[t] IN
    /\ t \in fresh /\ fresh' = fresh \ {t}
    /\ open' = open \cup {t}
    /\ sockets' = [sockets EXCEPT ![u] = @ \cup {t}]
    /\ online' = online \cup {u}
    /\ UNCHANGED <<profile, queue, tasks, joins>>

ByeTo(t, pc) == bye' = [bye EXCEPT ![t] = pc]

(* Mutant of Disconnect: the socket is not taken out of userSockets. *)
DisconnectOnly(t) ==
    /\ t \in open
    /\ open' = open \ {t}
    /\ ByeTo(t, "scard")
    /\ UNCHANGED <<profile, queue, presence, req, scan, joins, fresh>>

(* The socket is gone, and its handler issues the SREM. *)
Disconnect(t) ==
    /\ t \in open
    /\ open' = open \ {t}
    /\ sockets' = [sockets EXCEPT ![Owner[t]] = @ \ {t}]
    /\ ByeTo(t, "scard")
    /\ UNCHANGED <<profile, queue, online, req, scan, joins, fresh>>

(* Other sockets remain: neither the presence nor the match is touched. *)
CountSockets(t) ==
    /\ bye[t] = "scard"
    /\ ByeTo(t, IF sockets[Owner[t]] # {} THEN "idle" ELSE "clear")
    /\ UNCHANGED <<profile, queue, open, presence, req, scan, joins, fresh>>

ClearPresence(t) ==
    /\ bye[t] = "clear"
    /\ sockets' = [sockets EXCEPT ![Owner[t]] = {}]
    /\ online' = online \ {Owner[t]}
    /\ ByeTo(t, "leave")
    /\ UNCHANGED <<profile, queue, open, req, scan, joins, fresh>>

--------------------------------------------------------------------------------
(* The queue *)

(* queue.leave: the entry, and the shards of the country the caller names. *)
LeaveAs(u, c) ==
    /\ entry' = [entry EXCEPT ![u] = None]
    /\ zset' = [s \in Shard |-> IF s \in Indexed(c) THEN zset[s] \ {u} ELSE zset[s]]

(* The disconnect handler goes on: the profile is read, the queue left. An    *)
(* edit between the two is the race of LeaveLoad and LeaveWrite.              *)
ByeLeave(t) ==
    /\ bye[t] = "leave"
    /\ LeaveAs(Owner[t], country[Owner[t]])
    /\ ByeTo(t, "idle")
    /\ UNCHANGED <<profile, recent, open, presence, req, scan, joins, fresh>>

(* queue:join finds no entry and loads the profile; queue:leave loads it.     *)
(* What the restriction, occupancy and media checks refuse is left out.       *)
Request(u, pc) ==
    /\ Connected(u) /\ req[u].pc = "idle"
    /\ req' = [req EXCEPT ![u] = [pc |-> pc, country |-> country[u]]]
    /\ UNCHANGED <<profile, queue, open, presence, bye, scan, joins, fresh>>

JoinLoad(u)  == u \in Restless /\ entry[u] = None /\ joins < MaxJoins /\ Request(u, "join")
LeaveLoad(u) == u \in Restless /\ entry[u] # None /\ Request(u, "leave")

(* queue.join: one MULTI, whatever happened since the checks. *)
JoinWrite(u) ==
    LET c == req[u].country IN
    /\ req[u].pc = "join" /\ joins < MaxJoins
    /\ entry' = [entry EXCEPT ![u] = [Snapshot(u, c, joins + 1) EXCEPT !.recent = recent[u]]]
    /\ zset' = [s \in Shard |-> IF s \in Indexed(c) THEN zset[s] \cup {u} ELSE zset[s]]
    /\ req' = [req EXCEPT ![u] = NoTask]
    /\ joins' = joins + 1
    /\ UNCHANGED <<profile, recent, open, presence, bye, scan, fresh>>

LeaveWrite(u) ==
    /\ req[u].pc = "leave"
    /\ LeaveAs(u, req[u].country)
    /\ req' = [req EXCEPT ![u] = NoTask]
    /\ UNCHANGED <<profile, recent, open, presence, bye, scan, joins, fresh>>

(* The profile's country is edited while its user waits. *)
EditCountry(u) ==
    /\ u \in Restless /\ entry[u] # None /\ country[u] # Move[u]
    /\ country' = [country EXCEPT ![u] = Move[u]]
    /\ UNCHANGED <<queue, open, presence, tasks, joins, fresh>>

--------------------------------------------------------------------------------
(* tryMatch, from a tick or at the end of queue:join *)

ScanTo(a, s) == scan' = [scan EXCEPT ![a] = s]

(* Mutant of ReadShards: seekers find themselves. *)
ReadShardsAll(a, u) ==
    LET seeker == entry[u] IN
    /\ scan[a].pc = "idle" /\ seeker # None /\ Connected(u)
    /\ ScanTo(a, [NoScan EXCEPT !.pc = "mget", !.seeker = seeker,
                  !.ids = UNION {zset[s] : s \in shardsToScan(seeker)}])
    /\ UNCHANGED <<profile, queue, open, presence, req, bye, joins, fresh>>

(* getEntry, then the members of the shards of the seeker's stage. *)
ReadShards(a, u) ==
    LET seeker == entry[u] IN
    /\ scan[a].pc = "idle" /\ seeker # None /\ Connected(u)
    /\ ScanTo(a, [NoScan EXCEPT !.pc = "mget", !.seeker = seeker,
                  !.ids = UNION {zset[s] : s \in shardsToScan(seeker)} \ {u}])
    /\ UNCHANGED <<profile, queue, open, presence, req, bye, joins, fresh>>

(* Their snapshots; nobody there ends the attempt. *)
ReadEntries(a) ==
    /\ scan[a].pc = "mget"
    /\ ScanTo(a, IF scan[a].ids = {} THEN NoScan
                 ELSE [scan[a] EXCEPT !.pc = "prune",
                       !.pool = {entry[v] : v \in {w \in scan[a].ids : entry[w] # None}}])
    /\ UNCHANGED <<profile, queue, open, presence, req, bye, joins, fresh>>

Stale(a) == scan[a].ids \ {c.userId : c \in scan[a].pool}

(* Members that had no entry are removed from the shards that were scanned. *)
Prune(a) ==
    /\ scan[a].pc = "prune"
    /\ zset' = [s \in Shard |-> IF s \in shardsToScan(scan[a].seeker) THEN zset[s] \ Stale(a)
                               ELSE zset[s]]
    /\ ScanTo(a, IF scan[a].pool = {} THEN NoScan ELSE [scan[a] EXCEPT !.pc = "choose"])
    /\ UNCHANGED <<profile, entry, recent, open, presence, req, bye, joins, fresh>>

(* Recent partners are read live. *)
Seeker(a) == [scan[a].seeker EXCEPT !.recent = recent[scan[a].seeker.userId]]

(* The choice, and the commit if both are still queued: each leaves the       *)
(* shards of the snapshot the scan holds, and remembers the other. Any order  *)
(* of the pool will do: see OneAnswer.                                        *)
Chosen(a) == {scan[a].seeker} \cup selectBestMatch(Seeker(a), SetToSeq(scan[a].pool))

Pair(both) ==
    LET ids == {c.userId : c \in both} IN
    IF Cardinality(both) = 2 /\ \A v \in ids : entry[v] # None
    THEN /\ entry' = [v \in User |-> IF v \in ids THEN None ELSE entry[v]]
         /\ zset' = [s \in Shard |->
                       zset[s] \ {c.userId : c \in {d \in both : s \in Indexed(d.country)}}]
         /\ recent' = [v \in User |-> IF v \in ids THEN recent[v] \cup (ids \ {v})
                                      ELSE recent[v]]
    ELSE UNCHANGED queue

Choose(a) ==
    /\ scan[a].pc = "choose"
    /\ ScanTo(a, NoScan)
    /\ \E both \in {Chosen(a)} : Pair(both)
    /\ UNCHANGED <<profile, open, presence, req, bye, joins, fresh>>

--------------------------------------------------------------------------------
(* Time *)

LastStage == Stages[Len(Stages)].after

(* A second passes for all who wait. *)
Second ==
    /\ \E u \in User : entry[u] # None /\ entry[u].waited < LastStage
    /\ entry' = [u \in User |-> IF entry[u] = None THEN None
                               ELSE [entry[u] EXCEPT !.waited = Lesser(@ + 1, LastStage)]]
    /\ UNCHANGED <<profile, zset, recent, open, presence, tasks, joins, fresh>>

(* The TTL of an entry, ten minutes, is far beyond the last stage. *)
ExpireEntry(u) ==
    /\ u \in Restless
    /\ entry[u] # None /\ entry[u].waited = LastStage
    /\ entry' = [entry EXCEPT ![u] = None]
    /\ UNCHANGED <<profile, zset, recent, open, presence, tasks, joins, fresh>>

--------------------------------------------------------------------------------
Handlers ==
    \/ \E t \in Tab : CountSockets(t) \/ ClearPresence(t) \/ ByeLeave(t)
    \/ \E u \in User : JoinWrite(u) \/ LeaveWrite(u)

Scans(a) == ReadEntries(a) \/ Prune(a) \/ Choose(a)

Tick(u) == \E a \in Attempt : ReadShards(a, u)

Next ==
    \/ \E t \in Tab : Connect(t) \/ Disconnect(t)
    \/ \E u \in User : JoinLoad(u) \/ LeaveLoad(u) \/ EditCountry(u)
                       \/ ExpireEntry(u) \/ Tick(u)
    \/ \E a \in Attempt : Scans(a)
    \/ Handlers
    \/ Second

Spec == Init /\ [][Next]_vars

(* Handlers end, the tick comes back to everybody who waits, time passes, and *)
(* what nobody renews expires.                                                *)
FairSpec ==
    /\ Spec
    /\ WF_vars(Handlers) /\ WF_vars(Second)
    /\ \A a \in Attempt : WF_vars(Scans(a))
    /\ \A u \in User : SF_vars(Tick(u))
    /\ WF_vars(\E u \in User : ~Connected(u) /\ ExpireEntry(u))

--------------------------------------------------------------------------------
Candidate ==
    [userId : User, country : Country \cup {Nowhere}, since : 0..MaxJoins,
     waited : 0..LastStage, wants : SUBSET Country, suits : {Profile[u].suits : u \in User},
     interests : {Profile[u].interests : u \in User}, excluded : SUBSET User,
     recent : SUBSET User]

Pc(labels) == [pc : labels, country : Country \cup {Nowhere}]

(* Types; a snapshot is filed under its own user, and a scan never considers  *)
(* its own seeker.                                                            *)
TypeOK ==
    /\ country \in [User -> Country \cup {Nowhere}]
    /\ \A u \in User : entry[u] # None => entry[u] \in Candidate /\ entry[u].userId = u
    /\ zset \in [Shard -> SUBSET User] /\ recent \in [User -> SUBSET User]
    /\ open \subseteq Tab /\ sockets \in [User -> SUBSET Tab]
    /\ online \subseteq User
    /\ req \in [User -> Pc({"idle", "join", "leave"})]
    /\ bye \in [Tab -> {"idle", "scard", "clear", "leave"}]
    /\ \A a \in Attempt :
        /\ scan[a].pc \in {"idle", "mget", "prune", "choose"}
        /\ scan[a].pc # "idle" => scan[a].seeker \in Candidate
                                 /\ scan[a].ids \subseteq User \ {scan[a].seeker.userId}
        /\ scan[a].pool \subseteq Candidate
    /\ joins \in 0..MaxJoins /\ fresh \subseteq Tab \ open

(* selectBestMatch is deterministic: whatever order the pool was loaded in,   *)
(* it finds the one legal candidate better than every other.                  *)
LegalIn(a) == {c \in scan[a].pool : Legal(Seeker(a), c)}

OneAnswer ==
    \A a \in Attempt : scan[a].pc = "choose" =>
        \A pool \in SetToSeqs(scan[a].pool) :
            selectBestMatch(Seeker(a), pool)
              = {c \in LegalIn(a) : \A d \in LegalIn(a) \ {c} : isBetter(Seeker(a), c, d)}

(* Once the disconnect handlers have run, nobody counts as online who has no  *)
(* tab, however the tabs came and went.                                       *)
OnlineHasTab ==
    \A u \in online :
        (\A t \in TabsOf(u) : bye[t] = "idle") => open \cap TabsOf(u) # {}

(* Two connected users whom no block separates do not wait side by side for   *)
(* ever: the ladder ends, and a scan finds one of them, unless both lost      *)
(* their place in the index.                                                  *)
Waiting(u) == entry[u] # None /\ Connected(u)

WaitersMeet ==
    \A u, v \in User :
        u < v /\ u \notin Profile[v].excluded /\ v \notin Profile[u].excluded
        => ~<>[](Waiting(u) /\ Waiting(v) /\ {u, v} \cap zset[Global] # {})

================================================================================
