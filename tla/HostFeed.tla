------------------------------ MODULE HostFeed ------------------------------
(***************************************************************************)
(* The host observation stream of the gateway: the collector's cadence     *)
(* (SystemService.tick), the rows it stores (SystemRepository), and the    *)
(* subscribers of GET /api/system/stream, which resume from the id of the  *)
(* last frame they received.                                               *)
(*                                                                         *)
(* A snapshot is its place in the order in which snapshots were ever       *)
(* collected, over all starts of the gateway; its timestamp is that place. *)
(* The number it is stored and announced under is another one: it counts   *)
(* from 1 again at every start, while the database file stays.             *)
(***************************************************************************)
EXTENDS Integers, Sequences, FiniteSets

CONSTANTS
    Clients,      \* the browsers that open the stream
    MaxClients,   \* MAX_STREAM_CLIENTS
    ReplayBatch,  \* REPLAY_BATCH
    MaxTicks,     \* bound: collections, over all starts
    MaxStarts,    \* bound: starts of the gateway
    MaxLosses     \* bound: connections lost, and saves that fail

ASSUME HostFeedAssumption ==
    /\ MaxClients \in Nat \ {0}
    /\ ReplayBatch \in Nat \ {0}
    /\ MaxTicks \in Nat
    /\ MaxStarts \in Nat \ {0}
    /\ MaxLosses \in Nat

VARIABLES
    up,        \* the gateway process runs
    starts,    \* how often it was started
    taken,     \* snapshots collected so far, over all starts
    base,      \* taken, when the gateway last started
    colSeq,    \* HostCollector.sequence: the number a snapshot is stored under
    svcSeq,    \* SystemService.sequence: the number it is announced under
    latest,    \* SystemService.latestSnapshot, 0 for null
    store,     \* system_snapshots: number -> snapshot
    procs,     \* system_process_snapshots: pairs of number and snapshot
    unsaved,   \* snapshots whose save failed
    cut,       \* snapshots up to this one were purged
    subs,      \* connections the server holds open
    ghosts,    \* connections the client lost and the server still holds
    wire,      \* frames written and not yet received
    cursor,    \* the client's Last-Event-ID, -1 when it has none
    past,      \* numbers a resume passed over because the batch was full
    told,      \* numbers a system.gap frame named
    got,       \* the caps.system frames the client received, in order
    losses     \* counts connections lost and saves that failed

gateway == <<up, starts, taken, base, colSeq, svcSeq, latest>>
tables  == <<store, procs, unsaved, cut>>
server  == <<subs, ghosts>>
browser == <<cursor, told, got>>
vars    == <<gateway, tables, server, wire, past, browser, losses>>

None == 0
NoCursor == -1

(* The frames.  Only caps.system frames carry an id; system.gap does not.  *)
Snapshot(n, s)  == [kind |-> "snapshot", seq |-> n, snap |-> s]
Processes(n, s) == [kind |-> "processes", seq |-> n, snap |-> s]
Gap(a, b)       == [kind |-> "gap", seq |-> a, snap |-> b]

-----------------------------------------------------------------------------
(* Mutant: a row that is there is kept (INSERT OR IGNORE).                  *)
SaveSnapshot_Ignore(n, s) ==
    IF n \in DOMAIN store THEN store
    ELSE [m \in DOMAIN store \cup {n} |-> IF m = n THEN s ELSE store[m]]

(* SystemRepository.save: one transaction, INSERT OR REPLACE by number for *)
(* the snapshot and by (number, process) for the rows of its processes.    *)
SaveSnapshot(n, s) == [m \in DOMAIN store \cup {n} |-> IF m = n THEN s ELSE store[m]]

SaveProcesses(n, s, discovered) ==
    IF discovered THEN procs \cup {<<n, s>>} ELSE procs

(* Mutant: the row after the cursor is taken as seen.                      *)
RowsAfter_SkipsOne(n) == {m \in DOMAIN store : m > n + 1}

RowsAfter(n) == {m \in DOMAIN store : m > n}

(* listAfter: the rows with a greater number, smallest first, at most      *)
(* ReplayBatch of them (a set of one sequence).                            *)
ListAfter(n) ==
    LET rows == RowsAfter(n)
        size == IF Cardinality(rows) < ReplayBatch THEN Cardinality(rows) ELSE ReplayBatch
    IN  {batch \in [1..size -> rows] :
            /\ \A i, j \in 1..size : i < j => batch[i] < batch[j]
            /\ \A m \in rows : \/ \E i \in 1..size : batch[i] = m
                               \/ \A i \in 1..size : batch[i] < m}

(* A fresh client is served the latest snapshot only; a resuming one the   *)
(* stored rows, under their numbers.                                       *)
Backlogs(last) ==
    IF last < 0
    THEN {IF latest = None THEN <<>> ELSE <<Snapshot(svcSeq, latest)>>}
    ELSE {[i \in DOMAIN batch |-> Snapshot(batch[i], store[batch[i]])] : batch \in ListAfter(last)}

(* The route writes the backlog, then says which numbers are missing       *)
(* before its first row.                                                   *)
GapFrames(last, backlog) ==
    IF last >= 0 /\ backlog # <<>> /\ backlog[1].seq > last + 1
    THEN <<Gap(last + 1, backlog[1].seq - 1)>>
    ELSE <<>>

(* emit: every subscriber gets the frame at once.  Delivery is switched on *)
(* in the same turn as the subscription, so nothing waits in a buffer.     *)
Published(frames) ==
    [c \in Clients |-> IF c \in subs THEN wire[c] \o frames ELSE wire[c]]

-----------------------------------------------------------------------------
Init ==
    /\ up = TRUE /\ starts = 1 /\ taken = 0 /\ base = 0
    /\ colSeq = 0 /\ svcSeq = 0 /\ latest = None
    /\ store = <<>> /\ procs = {} /\ unsaved = {} /\ cut = 0
    /\ subs = {} /\ ghosts = 0
    /\ wire = [c \in Clients |-> <<>>]
    /\ cursor = [c \in Clients |-> NoCursor]
    /\ past = [c \in Clients |-> {}]
    /\ told = [c \in Clients |-> {}]
    /\ got = [c \in Clients |-> <<>>]
    /\ losses = 0

(* The collection and the transaction of one tick.  The number in the row  *)
(* is the collector's; a save that throws is logged and the tick goes on.  *)
(* The first tick of a start always discovers: it has no processes yet.    *)
Collect(discovered, saved) ==
    /\ up
    /\ taken < MaxTicks
    /\ latest = None => discovered
    /\ ~saved => losses < MaxLosses
    /\ taken' = taken + 1
    /\ colSeq' = colSeq + 1
    /\ IF saved
       THEN /\ store' = SaveSnapshot(colSeq + 1, taken + 1)
            /\ procs' = SaveProcesses(colSeq + 1, taken + 1, discovered)
            /\ UNCHANGED <<unsaved, losses>>
       ELSE /\ unsaved' = unsaved \cup {taken + 1}
            /\ losses' = losses + 1
            /\ UNCHANGED <<store, procs>>

(* The frames of the tick: the processes and the snapshot, both under the  *)
(* number the service takes next.                                          *)
TickFrames(discovered, s) ==
    IF discovered THEN <<Processes(svcSeq + 1, s), Snapshot(svcSeq + 1, s)>>
    ELSE <<Snapshot(svcSeq + 1, s)>>

Tick(discovered, saved) ==
    /\ Collect(discovered, saved)
    /\ latest' = taken + 1
    /\ svcSeq' = svcSeq + 1
    /\ wire' = Published(TickFrames(discovered, taken + 1))
    /\ UNCHANGED <<up, starts, base, cut, server, past, browser>>

(* What ends with the process: the connections and everything in memory.   *)
Down ==
    /\ up' = FALSE
    /\ svcSeq' = 0 /\ latest' = None
    /\ subs' = {} /\ ghosts' = 0
    /\ wire' = [c \in Clients |-> <<>>]
    /\ UNCHANGED <<starts, base, cut, past, browser>>

Stop ==
    /\ up
    /\ Down
    /\ colSeq' = 0
    /\ UNCHANGED <<taken, store, procs, unsaved, losses>>

(* The process dies after the transaction and before the first frame.      *)
StopInTick(discovered) ==
    /\ up
    /\ taken < MaxTicks
    /\ latest = None => discovered
    /\ taken' = taken + 1
    /\ store' = SaveSnapshot(colSeq + 1, taken + 1)
    /\ procs' = SaveProcesses(colSeq + 1, taken + 1, discovered)
    /\ Down
    /\ colSeq' = 0
    /\ UNCHANGED <<unsaved, losses>>

(* A start finds the tables as they are and counts from zero.              *)
Start ==
    /\ ~up
    /\ starts < MaxStarts
    /\ up' = TRUE
    /\ starts' = starts + 1
    /\ base' = taken
    /\ UNCHANGED <<taken, colSeq, svcSeq, latest, tables, server, wire, past, browser, losses>>

(* purgeOlderThan: the process rows of the old snapshots, then the         *)
(* snapshots.                                                              *)
Purge(k) ==
    /\ up
    /\ cut < k /\ k < taken
    /\ cut' = k
    /\ LET old == {n \in DOMAIN store : store[n] <= k}
       IN  /\ procs' = {p \in procs : p[1] \notin old}
           /\ store' = [n \in DOMAIN store \ old |-> store[n]]
    /\ UNCHANGED <<gateway, unsaved, server, wire, past, browser, losses>>

-----------------------------------------------------------------------------
(* GET /api/system/stream.  The subscription, the backlog, the gap frame   *)
(* and the switch to live delivery are one turn of the event loop.         *)
Connect(c) ==
    /\ up
    /\ c \notin subs
    /\ Cardinality(subs) + ghosts < MaxClients
    /\ subs' = subs \cup {c}
    /\ \E backlog \in Backlogs(cursor[c]) :
          /\ wire' = [wire EXCEPT ![c] = backlog \o GapFrames(cursor[c], backlog)]
          /\ past' = IF cursor[c] < 0 THEN past
                     ELSE LET served == {backlog[i].seq : i \in DOMAIN backlog}
                          IN  [past EXCEPT ![c] = @ \cup (RowsAfter(cursor[c]) \ served)]
    /\ UNCHANGED <<gateway, tables, ghosts, browser, losses>>

(* The browser takes the next frame; a frame with an id moves the cursor.  *)
Receive(c) ==
    /\ c \in subs /\ wire[c] # <<>>
    /\ wire' = [wire EXCEPT ![c] = Tail(@)]
    /\ LET f == Head(wire[c])
       IN  IF f.kind = "gap"
           THEN /\ told' = [told EXCEPT ![c] = @ \cup f.seq..f.snap]
                /\ UNCHANGED <<cursor, got>>
           ELSE /\ cursor' = [cursor EXCEPT ![c] = f.seq]
                /\ got' = [got EXCEPT ![c] = Append(@, f)]
                /\ UNCHANGED told
    /\ UNCHANGED <<gateway, tables, server, past, losses>>

(* The connection breaks; what was in flight is lost.  The server may find *)
(* out later: until then the subscription counts and is written to.        *)
Lose(c) ==
    /\ c \in subs
    /\ losses < MaxLosses
    /\ losses' = losses + 1
    /\ subs' = subs \ {c}
    /\ ghosts' = ghosts + 1
    /\ wire' = [wire EXCEPT ![c] = <<>>]
    /\ UNCHANGED <<gateway, tables, past, browser>>

(* cleanup: the close event of the request removes the subscription.       *)
Cleanup ==
    /\ ghosts > 0
    /\ ghosts' = ghosts - 1
    /\ UNCHANGED <<gateway, tables, subs, wire, past, browser, losses>>

Next ==
    \/ \E discovered, saved \in BOOLEAN : Tick(discovered, saved)
    \/ \E discovered \in BOOLEAN : StopInTick(discovered)
    \/ Stop
    \/ Start
    \/ \E k \in 1..MaxTicks : Purge(k)
    \/ \E c \in Clients : Connect(c) \/ Receive(c) \/ Lose(c)
    \/ Cleanup

Spec == Init /\ [][Next]_vars

-----------------------------------------------------------------------------
Frames ==
    [kind : {"snapshot", "processes"}, seq : 1..MaxTicks, snap : 1..MaxTicks]
        \cup [kind : {"gap"}, seq : Nat, snap : Nat]

TypeOK ==
    /\ up \in BOOLEAN
    /\ starts \in 1..MaxStarts
    /\ taken \in 0..MaxTicks /\ base \in 0..taken
    /\ colSeq \in 0..MaxTicks /\ svcSeq \in 0..MaxTicks
    /\ latest \in 0..taken /\ cut \in 0..MaxTicks
    /\ DOMAIN store \subseteq 1..MaxTicks
    /\ \A n \in DOMAIN store : store[n] \in 1..taken
    /\ procs \subseteq (1..MaxTicks) \X (1..MaxTicks)
    /\ unsaved \subseteq 1..MaxTicks
    /\ subs \subseteq Clients /\ ghosts \in Nat
    /\ wire \in [Clients -> Seq(Frames)]
    /\ cursor \in [Clients -> NoCursor..MaxTicks]
    /\ past \in [Clients -> SUBSET (1..MaxTicks)]
    /\ told \in [Clients -> SUBSET Nat]
    /\ got \in [Clients -> Seq(Frames)]
    /\ losses \in 0..MaxLosses
=============================================================================
