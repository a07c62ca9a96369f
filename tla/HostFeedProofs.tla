--------------------------- MODULE HostFeedProofs ---------------------------
(***************************************************************************)
(* Types, the persist-before-publish promise and exact resumption of the   *)
(* host stream, for every number of clients, ticks, starts and losses.     *)
(*                                                                         *)
(* StoredBeforeSeen is not inductive: a purge or a new row could take away *)
(* what a frame in flight names.  The strengthening says how the two       *)
(* counters relate to the order of collection: since the last start, the   *)
(* snapshot announced and stored under number n is base + n.               *)
(***************************************************************************)
EXTENDS HostFeedProperties, FiniteSetTheorems, TLAPS

Counters ==
    /\ up => colSeq = taken - base /\ svcSeq = colSeq
    /\ ~up => colSeq = 0 /\ svcSeq = 0
    /\ latest # None => up /\ latest = taken /\ base < taken

Kept(s) ==
    \/ s \in unsaved
    \/ s <= cut
    \/ s - base \in DOMAIN store /\ store[s - base] = s

Rows == \A n \in DOMAIN store : store[n] > base => store[n] = base + n

(* What frames of this start say, given what was taken, what is gone and   *)
(* which process rows there are.                                           *)
Honest(f, start, last, gone, rows) ==
    (f.kind # "gap" /\ f.snap > start) =>
        /\ f.seq = f.snap - start
        /\ f.snap <= last
        /\ f.kind = "processes" => f.snap \in gone \/ <<f.seq, f.snap>> \in rows

HonestSeq(s, start, last, gone, rows) ==
    \A i \in DOMAIN s : Honest(s[i], start, last, gone, rows)

Gone == unsaved \cup 0..cut

GoodFrames(s) == HonestSeq(s, base, taken, Gone, procs)

FeedInv ==
    /\ TypeOK
    /\ Counters
    /\ Rows
    /\ \A s \in (base + 1)..taken : Kept(s)
    /\ \A c \in Clients : GoodFrames(wire[c]) /\ GoodFrames(got[c])

-----------------------------------------------------------------------------
(* The rows a resume is served are rows of the table, finitely many.       *)
LEMMA ListAfterRows ==
    ASSUME FeedInv, NEW n \in Nat, NEW batch \in ListAfter(n)
    PROVE  \E k \in Nat : /\ batch \in [1..k -> DOMAIN store]
                          /\ \A i \in 1..k : batch[i] \in 1..MaxTicks /\ store[batch[i]] \in 1..taken
<1> DEFINE rows == RowsAfter(n)
           size == IF Cardinality(rows) < ReplayBatch THEN Cardinality(rows) ELSE ReplayBatch
<1>1. IsFiniteSet(rows)
  <2>1. MaxTicks \in Nat /\ IsFiniteSet(1..MaxTicks)
    BY HostFeedAssumption, FS_Interval
  <2>2. rows \subseteq 1..MaxTicks
    BY DEF RowsAfter, FeedInv, TypeOK
  <2> QED
    BY <2>1, <2>2, FS_Subset
<1>2. size \in Nat
  BY <1>1, FS_CardinalityType, HostFeedAssumption
<1>3. batch \in [1..size -> rows]
  BY DEF ListAfter
<1>4. rows \subseteq DOMAIN store
  BY DEF RowsAfter
<1> QED
  BY <1>2, <1>3, <1>4 DEF FeedInv, TypeOK

(* Every backlog is a sequence of good frames.                             *)
LEMMA BacklogGood ==
    ASSUME FeedInv, NEW last \in NoCursor..MaxTicks, NEW backlog \in Backlogs(last), up
    PROVE  /\ backlog \in Seq(Frames)
           /\ GoodFrames(backlog)
           /\ \A i \in DOMAIN backlog : backlog[i].seq \in 1..MaxTicks
<1> USE HostFeedAssumption
<1>1. CASE last < 0 /\ latest = None
  <2>1. backlog = <<>>
    BY <1>1 DEF Backlogs
  <2> QED
    BY <2>1 DEF GoodFrames, HonestSeq
<1>2. CASE last < 0 /\ latest # None
  <2>1. backlog = <<Snapshot(svcSeq, latest)>>
    BY <1>2 DEF Backlogs
  <2>2. svcSeq = taken - base /\ latest = taken /\ base < taken
    BY <1>2 DEF FeedInv, Counters
  <2>3. taken \in 0..MaxTicks /\ base \in 0..taken
    BY DEF FeedInv, TypeOK
  <2>4. svcSeq \in 1..MaxTicks /\ latest \in 1..MaxTicks
    BY <2>2, <2>3
  <2>5. Snapshot(svcSeq, latest) \in Frames
    BY <2>4 DEF Snapshot, Frames
  <2>6. Honest(Snapshot(svcSeq, latest), base, taken, Gone, procs)
    BY <2>2, <2>3 DEF Honest, Snapshot
  <2> QED
    BY <2>1, <2>4, <2>5, <2>6 DEF GoodFrames, HonestSeq, Snapshot
<1>3. CASE ~(last < 0)
  <2>1. last \in Nat
    BY <1>3 DEF NoCursor
  <2>2. PICK batch \in ListAfter(last) :
           backlog = [i \in DOMAIN batch |-> Snapshot(batch[i], store[batch[i]])]
    BY <1>3 DEF Backlogs
  <2>3. PICK k \in Nat : /\ batch \in [1..k -> DOMAIN store]
                         /\ \A i \in 1..k : batch[i] \in 1..MaxTicks /\ store[batch[i]] \in 1..taken
    BY <2>1, ListAfterRows
  <2>4. taken \in 0..MaxTicks /\ base \in 0..taken
    BY DEF FeedInv, TypeOK
  <2>5. \A i \in 1..k : /\ backlog[i] = Snapshot(batch[i], store[batch[i]])
                        /\ backlog[i] \in Frames
                        /\ backlog[i].seq \in 1..MaxTicks
    BY <2>2, <2>3, <2>4 DEF Snapshot, Frames
  <2>6. backlog \in Seq(Frames) /\ DOMAIN backlog = 1..k
    BY <2>2, <2>3, <2>5
  <2>7. \A i \in 1..k : Honest(backlog[i], base, taken, Gone, procs)
    <3> TAKE i \in 1..k
    <3>1. batch[i] \in DOMAIN store /\ batch[i] \in 1..MaxTicks /\ store[batch[i]] \in 1..taken
      BY <2>3
    <3>2. store[batch[i]] > base => store[batch[i]] = base + batch[i]
      BY <3>1 DEF FeedInv, Rows
    <3>3. /\ backlog[i].kind = "snapshot"
          /\ backlog[i].seq = batch[i]
          /\ backlog[i].snap = store[batch[i]]
      <4>1. backlog[i] = Snapshot(batch[i], store[batch[i]])
        BY <2>5
      <4> QED
        BY <4>1 DEF Snapshot
    <3>4. backlog[i].snap > base => backlog[i].seq = backlog[i].snap - base
      BY <2>4, <3>1, <3>2, <3>3
    <3>5. backlog[i].snap <= taken
      BY <2>4, <3>1, <3>3
    <3> QED
      BY <3>3, <3>4, <3>5 DEF Honest
  <2> QED
    BY <2>5, <2>6, <2>7 DEF GoodFrames, HonestSeq
<1> QED
  BY <1>1, <1>2, <1>3

LEMMA GapGood ==
    ASSUME FeedInv, NEW last \in NoCursor..MaxTicks, NEW backlog \in Seq(Frames),
           \A i \in DOMAIN backlog : backlog[i].seq \in 1..MaxTicks
    PROVE  GapFrames(last, backlog) \in Seq(Frames) /\ GoodFrames(GapFrames(last, backlog))
<1> USE HostFeedAssumption
<1>1. CASE last >= 0 /\ backlog # <<>> /\ backlog[1].seq > last + 1
  <2>1. GapFrames(last, backlog) = <<Gap(last + 1, backlog[1].seq - 1)>>
    BY <1>1 DEF GapFrames
  <2>2. 1 \in DOMAIN backlog
    BY <1>1
  <2>3. last + 1 \in Nat /\ backlog[1].seq - 1 \in Nat
    BY <1>1, <2>2 DEF NoCursor
  <2>4. Gap(last + 1, backlog[1].seq - 1) \in Frames
    BY <2>3 DEF Gap, Frames
  <2> QED
    BY <2>1, <2>4 DEF GoodFrames, HonestSeq, Honest, Gap
<1>2. CASE ~(last >= 0 /\ backlog # <<>> /\ backlog[1].seq > last + 1)
  BY <1>2 DEF GapFrames, GoodFrames, HonestSeq
<1> QED
  BY <1>1, <1>2

(* Honest frames joined are honest, and stay so when more was taken, more  *)
(* is gone or more rows are there.                                         *)
LEMMA Joined ==
    ASSUME NEW s \in Seq(Frames), NEW t \in Seq(Frames),
           NEW start, NEW last, NEW gone, NEW rows,
           HonestSeq(s, start, last, gone, rows), HonestSeq(t, start, last, gone, rows)
    PROVE  s \o t \in Seq(Frames) /\ HonestSeq(s \o t, start, last, gone, rows)
<1>1. \A i \in DOMAIN (s \o t) :
        \/ i \in DOMAIN s /\ (s \o t)[i] = s[i]
        \/ i - Len(s) \in DOMAIN t /\ (s \o t)[i] = t[i - Len(s)]
  OBVIOUS
<1> QED
  BY <1>1 DEF HonestSeq

LEMMA FewFrames ==
    ASSUME NEW f \in Frames, NEW g \in Frames, NEW start, NEW last, NEW gone, NEW rows,
           Honest(f, start, last, gone, rows), Honest(g, start, last, gone, rows)
    PROVE  /\ <<f>> \in Seq(Frames) /\ HonestSeq(<<f>>, start, last, gone, rows)
           /\ <<g, f>> \in Seq(Frames) /\ HonestSeq(<<g, f>>, start, last, gone, rows)
<1>1. DOMAIN <<f>> = {1} /\ <<f>>[1] = f
  OBVIOUS
<1>2. DOMAIN <<g, f>> = {1, 2} /\ <<g, f>>[1] = g /\ <<g, f>>[2] = f
  OBVIOUS
<1>3. <<f>> \in Seq(Frames) /\ <<g, f>> \in Seq(Frames)
  OBVIOUS
<1> QED
  BY <1>1, <1>2, <1>3 DEF HonestSeq

LEMMA StillHonest ==
    ASSUME NEW s \in Seq(Frames), NEW start, NEW last \in Nat, NEW later \in Nat,
           NEW gone, NEW gone2, NEW rows, NEW rows2,
           last <= later, gone \subseteq gone2, rows \subseteq rows2,
           HonestSeq(s, start, last, gone, rows)
    PROVE  HonestSeq(s, start, later, gone2, rows2)
<1> SUFFICES ASSUME NEW i \in DOMAIN s
             PROVE  Honest(s[i], start, later, gone2, rows2)
  BY DEF HonestSeq
<1>1. Honest(s[i], start, last, gone, rows) /\ s[i].snap \in Nat
  BY HostFeedAssumption DEF HonestSeq, Frames
<1> QED
  BY <1>1 DEF Honest

-----------------------------------------------------------------------------
(* A new row leaves the older rows of this start alone.                    *)
LEMMA SaveKeeps ==
    ASSUME FeedInv, up,
           taken' = taken + 1, base' = base, unsaved' = unsaved, cut' = cut,
           store' = SaveSnapshot(colSeq + 1, taken + 1)
    PROVE  /\ Rows'
           /\ \A s \in (base + 1)..taken' : Kept(s)'
<1>1. colSeq = taken - base /\ taken \in Nat /\ base \in 0..taken
  BY HostFeedAssumption DEF FeedInv, Counters, TypeOK
<1>2. /\ DOMAIN store' = DOMAIN store \cup {colSeq + 1}
      /\ store'[colSeq + 1] = taken + 1
      /\ \A m \in DOMAIN store : m # colSeq + 1 => store'[m] = store[m]
  BY DEF SaveSnapshot
<1>3. Rows'
  BY <1>1, <1>2 DEF Rows, FeedInv
<1>4. ASSUME NEW s \in (base + 1)..taken'
      PROVE  Kept(s)'
  <2>1. CASE s = taken + 1
    BY <1>1, <1>2, <2>1 DEF Kept
  <2>2. CASE s # taken + 1
    <3>1. s \in (base + 1)..taken /\ s - base # colSeq + 1
      BY <1>1, <1>4, <2>2
    <3>2. Kept(s)
      BY <3>1 DEF FeedInv
    <3> QED
      BY <1>2, <3>1, <3>2 DEF Kept
  <2> QED
    BY <2>1, <2>2
<1> QED
  BY <1>3, <1>4

-----------------------------------------------------------------------------
LEMMA InitFeed == Init => FeedInv
BY HostFeedAssumption DEF Init, FeedInv, TypeOK, Counters, Rows, GoodFrames, HonestSeq, None, NoCursor

LEMMA TickFeed ==
    ASSUME FeedInv, NEW discovered \in BOOLEAN, NEW saved \in BOOLEAN, Tick(discovered, saved)
    PROVE  FeedInv'
<1> USE HostFeedAssumption
<1>1. /\ colSeq = taken - base /\ svcSeq = colSeq /\ taken \in 0..MaxTicks /\ base \in 0..taken
      /\ taken < MaxTicks /\ taken' = taken + 1 /\ base' = base /\ cut' = cut
      /\ colSeq' = colSeq + 1 /\ svcSeq' = svcSeq + 1 /\ latest' = taken + 1 /\ up'
      /\ cut \in 0..MaxTicks
  BY DEF Tick, Collect, FeedInv, Counters, TypeOK, gateway
<1>2. /\ unsaved \subseteq unsaved' /\ procs \subseteq procs'
      /\ unsaved' \subseteq 1..MaxTicks /\ procs' \subseteq (1..MaxTicks) \X (1..MaxTicks)
      /\ losses' \in 0..MaxLosses
  <2>0. procs \subseteq (1..MaxTicks) \X (1..MaxTicks) /\ unsaved \subseteq 1..MaxTicks /\ losses \in 0..MaxLosses
    BY DEF FeedInv, TypeOK
  <2>1. CASE saved
    <3>1. procs' = SaveProcesses(colSeq + 1, taken + 1, discovered) /\ unsaved' = unsaved /\ losses' = losses
      BY <2>1 DEF Tick, Collect
    <3>2. <<colSeq + 1, taken + 1>> \in (1..MaxTicks) \X (1..MaxTicks)
      BY <1>1
    <3> QED
      BY <2>0, <3>1, <3>2 DEF SaveProcesses
  <2>2. CASE ~saved
    <3>1. procs' = procs /\ unsaved' = unsaved \cup {taken + 1} /\ losses' = losses + 1 /\ losses < MaxLosses
      BY <2>2 DEF Tick, Collect
    <3>2. taken + 1 \in 1..MaxTicks
      BY <1>1
    <3>3. losses + 1 \in 0..MaxLosses
      BY <2>0, <3>1
    <3> QED
      BY <2>0, <3>1, <3>2, <3>3
  <2> QED
    BY <2>1, <2>2
<1>3. /\ Rows'
      /\ \A s \in (base + 1)..taken' : Kept(s)'
      /\ DOMAIN store' \subseteq 1..MaxTicks
      /\ \A n \in DOMAIN store' : store'[n] \in 1..taken'
  <2>1. CASE saved
    <3>1. store' = SaveSnapshot(colSeq + 1, taken + 1) /\ unsaved' = unsaved
      BY <2>1 DEF Tick, Collect
    <3>2. Rows' /\ \A s \in (base + 1)..taken' : Kept(s)'
      BY <1>1, <3>1, SaveKeeps DEF Tick, Collect
    <3> QED
      BY <1>1, <3>1, <3>2 DEF SaveSnapshot, FeedInv, TypeOK
  <2>2. CASE ~saved
    <3>1. store' = store /\ unsaved' = unsaved \cup {taken + 1}
      BY <2>2 DEF Tick, Collect
    <3> QED
      BY <1>1, <3>1 DEF FeedInv, TypeOK, Rows, Kept
  <2> QED
    BY <2>1, <2>2
<1>4. /\ TickFrames(discovered, taken + 1) \in Seq(Frames)
      /\ HonestSeq(TickFrames(discovered, taken + 1), base, taken + 1, Gone', procs')
  <2> DEFINE p == Processes(svcSeq + 1, taken + 1)
             s == Snapshot(svcSeq + 1, taken + 1)
  <2>1. svcSeq + 1 \in 1..MaxTicks /\ taken + 1 \in 1..MaxTicks
    BY <1>1
  <2>2. p \in Frames /\ s \in Frames
    BY <2>1 DEF Processes, Snapshot, Frames
  <2>3. svcSeq + 1 = (taken + 1) - base
    BY <1>1
  <2>4. Honest(s, base, taken + 1, Gone', procs')
    BY <1>1, <2>3 DEF Honest, Snapshot
  <2>5. CASE discovered
    <3>1. taken + 1 \in unsaved' \/ <<svcSeq + 1, taken + 1>> \in procs'
      BY <1>1, <2>5 DEF Tick, Collect, SaveProcesses
    <3>2. Honest(p, base, taken + 1, Gone', procs')
      BY <1>1, <2>3, <3>1 DEF Honest, Processes, Gone
    <3>3. TickFrames(discovered, taken + 1) = <<p, s>>
      BY <2>5 DEF TickFrames
    <3> HIDE DEF p, s
    <3> QED
      BY <2>2, <2>4, <3>2, <3>3, FewFrames
  <2>6. CASE ~discovered
    <3>1. TickFrames(discovered, taken + 1) = <<s>>
      BY <2>6 DEF TickFrames
    <3> HIDE DEF s
    <3> QED
      BY <2>2, <2>4, <3>1, FewFrames
  <2> QED
    BY <2>5, <2>6
<1>5. Gone \subseteq Gone'
  BY <1>1, <1>2 DEF Gone
<1>6. ASSUME NEW s \in Seq(Frames), GoodFrames(s)
      PROVE  HonestSeq(s, base, taken + 1, Gone', procs')
  BY <1>1, <1>2, <1>5, <1>6, StillHonest DEF GoodFrames
<1>7. ASSUME NEW c \in Clients
      PROVE  /\ wire'[c] \in Seq(Frames) /\ HonestSeq(wire'[c], base', taken', Gone', procs')
             /\ got'[c] \in Seq(Frames) /\ HonestSeq(got'[c], base', taken', Gone', procs')
  <2>1. wire[c] \in Seq(Frames) /\ GoodFrames(wire[c]) /\ got[c] \in Seq(Frames) /\ GoodFrames(got[c])
    BY DEF FeedInv, TypeOK
  <2>2. got' = got
    BY DEF Tick, browser
  <2>3. wire'[c] = IF c \in subs THEN wire[c] \o TickFrames(discovered, taken + 1) ELSE wire[c]
    BY DEF Tick, Published
  <2>4. CASE c \in subs
    BY <1>1, <1>4, <1>6, <2>1, <2>2, <2>3, <2>4, Joined
  <2>5. CASE c \notin subs
    BY <1>1, <1>6, <2>1, <2>2, <2>3, <2>5
  <2> QED
    BY <2>4, <2>5
<1>8. TypeOK'
  <2>1. wire' \in [Clients -> Seq(Frames)]
    BY <1>7 DEF Tick, Published
  <2> QED
    BY <1>1, <1>2, <1>3, <2>1 DEF Tick, TypeOK, FeedInv, server, browser
<1>9. Counters'
  BY <1>1 DEF Counters, None
<1>10. \A c \in Clients : GoodFrames(wire[c])' /\ GoodFrames(got[c])'
  BY <1>7 DEF GoodFrames
<1> QED
  BY <1>1, <1>3, <1>8, <1>9, <1>10 DEF FeedInv

(* A step that leaves the tables, the counters and the frames alone, or    *)
(* only drops frames.                                                      *)
LEMMA QuietFeed ==
    ASSUME FeedInv, UNCHANGED <<gateway, tables, past, browser>>,
           subs' \subseteq Clients, ghosts' \in Nat, losses' \in 0..MaxLosses,
           wire' \in [Clients -> Seq(Frames)],
           \A c \in Clients : HonestSeq(wire'[c], base, taken, Gone, procs)
    PROVE  FeedInv'
<1> USE DEF gateway, tables, browser
<1>1. TypeOK'
  BY DEF FeedInv, TypeOK
<1>2. Counters' /\ Rows' /\ \A s \in (base + 1)..taken : Kept(s)'
  BY DEF FeedInv, Counters, Rows, Kept
<1>3. \A c \in Clients : GoodFrames(wire[c])' /\ GoodFrames(got[c])'
  BY DEF FeedInv, GoodFrames, Gone
<1> QED
  BY <1>1, <1>2, <1>3 DEF FeedInv

LEMMA StopFeed == ASSUME FeedInv, Stop PROVE FeedInv'
<1> USE HostFeedAssumption
<1>1. /\ up' = FALSE /\ colSeq' = 0 /\ svcSeq' = 0 /\ latest' = None /\ subs' = {} /\ ghosts' = 0
      /\ wire' = [c \in Clients |-> <<>>]
      /\ UNCHANGED <<starts, taken, base, store, procs, unsaved, cut, past, cursor, told, got, losses>>
  BY DEF Stop, Down, browser
<1>2. TypeOK'
  <2> USE DEF FeedInv, TypeOK
  <2>1. wire' \in [Clients -> Seq(Frames)]
    BY <1>1
  <2>2. /\ colSeq' \in 0..MaxTicks /\ svcSeq' \in 0..MaxTicks
        /\ latest' \in 0..taken' /\ subs' \subseteq Clients /\ ghosts' \in Nat
    <3>1. taken' \in Nat /\ MaxTicks \in Nat
      BY <1>1
    <3> QED
      BY <1>1, <3>1 DEF None
  <2>6. up' \in BOOLEAN
    BY <1>1
  <2>3. /\ starts' \in 1..MaxStarts /\ taken' \in 0..MaxTicks /\ base' \in 0..taken'
        /\ cut' \in 0..MaxTicks /\ losses' \in 0..MaxLosses
    BY <1>1
  <2>4. /\ DOMAIN store' \subseteq 1..MaxTicks
        /\ \A n \in DOMAIN store' : store'[n] \in 1..taken'
        /\ procs' \subseteq (1..MaxTicks) \X (1..MaxTicks)
        /\ unsaved' \subseteq 1..MaxTicks
    BY <1>1
  <2>5. /\ cursor' \in [Clients -> NoCursor..MaxTicks]
        /\ past' \in [Clients -> SUBSET (1..MaxTicks)]
        /\ told' \in [Clients -> SUBSET Nat]
        /\ got' \in [Clients -> Seq(Frames)]
    BY <1>1
  <2> QED
    BY <2>1, <2>2, <2>3, <2>4, <2>5, <2>6
<1>3. Counters' /\ Rows' /\ \A s \in (base + 1)..taken : Kept(s)'
  BY <1>1 DEF FeedInv, Counters, Rows, Kept, None
<1>4. \A c \in Clients : GoodFrames(wire[c])' /\ GoodFrames(got[c])'
  <2>1. Gone' = Gone /\ base' = base /\ taken' = taken /\ procs' = procs /\ got' = got
    BY <1>1 DEF Gone
  <2>2. \A c \in Clients : wire'[c] = <<>>
    BY <1>1
  <2>3. HonestSeq(<<>>, base, taken, Gone, procs)
    BY DEF HonestSeq
  <2> QED
    BY <2>1, <2>2, <2>3 DEF FeedInv, GoodFrames
<1> QED
  BY <1>1, <1>2, <1>3, <1>4 DEF FeedInv

LEMMA StopInTickFeed ==
    ASSUME FeedInv, NEW discovered \in BOOLEAN, StopInTick(discovered) PROVE FeedInv'
<1> USE HostFeedAssumption
<1>1. /\ up /\ up' = FALSE /\ colSeq' = 0 /\ svcSeq' = 0 /\ latest' = None /\ subs' = {} /\ ghosts' = 0
      /\ wire' = [c \in Clients |-> <<>>]
      /\ taken < MaxTicks /\ taken' = taken + 1
      /\ store' = SaveSnapshot(colSeq + 1, taken + 1)
      /\ procs' = SaveProcesses(colSeq + 1, taken + 1, discovered)
      /\ UNCHANGED <<starts, base, unsaved, cut, past, cursor, told, got, losses>>
  BY DEF StopInTick, Down, browser
<1>2. colSeq = taken - base /\ taken \in 0..MaxTicks /\ base \in 0..taken
  BY <1>1 DEF FeedInv, Counters, TypeOK
<1>3. Rows' /\ \A s \in (base + 1)..taken' : Kept(s)'
  BY <1>1, SaveKeeps
<1>4. DOMAIN store' \subseteq 1..MaxTicks /\ \A n \in DOMAIN store' : store'[n] \in 1..taken'
  BY <1>1, <1>2 DEF SaveSnapshot, FeedInv, TypeOK
<1>5. procs \subseteq procs' /\ procs' \subseteq (1..MaxTicks) \X (1..MaxTicks)
  <2>1. <<colSeq + 1, taken + 1>> \in (1..MaxTicks) \X (1..MaxTicks)
    BY <1>1, <1>2
  <2>2. procs \subseteq (1..MaxTicks) \X (1..MaxTicks)
    BY DEF FeedInv, TypeOK
  <2> QED
    BY <1>1, <2>1, <2>2 DEF SaveProcesses
<1>6. TypeOK'
  <2>1. wire' \in [Clients -> Seq(Frames)]
    BY <1>1
  <2>2. taken' \in 0..MaxTicks /\ base' \in 0..taken'
    BY <1>1, <1>2
  <2> USE DEF FeedInv, TypeOK
  <2>3. /\ colSeq' \in 0..MaxTicks /\ svcSeq' \in 0..MaxTicks
        /\ latest' \in 0..taken' /\ subs' \subseteq Clients /\ ghosts' \in Nat
    <3>1. taken' \in Nat /\ MaxTicks \in Nat
      BY <2>2
    <3> QED
      BY <1>1, <3>1 DEF None
  <2>7. up' \in BOOLEAN
    BY <1>1
  <2>4. starts' \in 1..MaxStarts /\ cut' \in 0..MaxTicks /\ losses' \in 0..MaxLosses
    BY <1>1
  <2>5. procs' \subseteq (1..MaxTicks) \X (1..MaxTicks) /\ unsaved' \subseteq 1..MaxTicks
    BY <1>1, <1>5
  <2>6. /\ cursor' \in [Clients -> NoCursor..MaxTicks]
        /\ past' \in [Clients -> SUBSET (1..MaxTicks)]
        /\ told' \in [Clients -> SUBSET Nat]
        /\ got' \in [Clients -> Seq(Frames)]
    BY <1>1
  <2> QED
    BY <1>4, <2>1, <2>2, <2>3, <2>4, <2>5, <2>6, <2>7
<1>7. Counters'
  BY <1>1 DEF Counters, None
<1>8. ASSUME NEW c \in Clients
      PROVE  GoodFrames(wire[c])' /\ GoodFrames(got[c])'
  <2>1. HonestSeq(got[c], base, taken, Gone, procs) /\ got[c] \in Seq(Frames)
    BY DEF FeedInv, GoodFrames, TypeOK
  <2>2. HonestSeq(got[c], base, taken + 1, Gone, procs')
    BY <1>2, <1>5, <2>1, StillHonest
  <2>3. Gone' = Gone
    BY <1>1 DEF Gone
  <2>4. HonestSeq(<<>>, base, taken + 1, Gone, procs')
    BY DEF HonestSeq
  <2> QED
    BY <1>1, <2>2, <2>3, <2>4 DEF GoodFrames
<1> QED
  BY <1>1, <1>3, <1>6, <1>7, <1>8 DEF FeedInv

(* After a start, every snapshot there is belongs to an earlier one.       *)
LEMMA StartFeed == ASSUME FeedInv, Start PROVE FeedInv'
<1> USE HostFeedAssumption
<1>1. /\ ~up /\ up' /\ base' = taken /\ starts' \in 1..MaxStarts
      /\ UNCHANGED <<taken, colSeq, svcSeq, latest, store, procs, unsaved, cut, subs, ghosts, wire, past, cursor, told, got, losses>>
  BY DEF Start, tables, server, browser, FeedInv, TypeOK
<1>2. taken \in Nat /\ base \in 0..taken
  BY DEF FeedInv, TypeOK
<1>3. TypeOK'
  BY <1>1, <1>2 DEF FeedInv, TypeOK
<1>4. Counters'
  BY <1>1, <1>2 DEF FeedInv, Counters
<1>5. Rows' /\ \A s \in (base' + 1)..taken' : Kept(s)'
  BY <1>1, <1>2 DEF FeedInv, TypeOK, Rows
<1>6. ASSUME NEW s \in Seq(Frames), HonestSeq(s, base, taken, Gone, procs)
      PROVE  HonestSeq(s, taken, taken, Gone, procs)
  <2> SUFFICES ASSUME NEW i \in DOMAIN s, s[i].kind # "gap", s[i].snap > taken
               PROVE  FALSE
    BY DEF HonestSeq, Honest
  <2>1. s[i] \in Frames /\ Honest(s[i], base, taken, Gone, procs)
    BY <1>6 DEF HonestSeq
  <2>2. s[i].snap \in Nat
    BY <2>1 DEF Frames
  <2> QED
    BY <1>2, <2>1, <2>2 DEF Honest
<1>7. \A c \in Clients : GoodFrames(wire[c])' /\ GoodFrames(got[c])'
  <2>1. Gone' = Gone
    BY <1>1 DEF Gone
  <2> QED
    BY <1>1, <1>6, <2>1 DEF FeedInv, GoodFrames, TypeOK
<1> QED
  BY <1>1, <1>3, <1>4, <1>5, <1>7 DEF FeedInv

(* A purge takes rows away only up to the cut it moves.                    *)
LEMMA PurgeFeed ==
    ASSUME FeedInv, NEW k \in 1..MaxTicks, Purge(k) PROVE FeedInv'
<1> USE HostFeedAssumption
<1> DEFINE old == {n \in DOMAIN store : store[n] <= k}
<1>1. /\ cut < k /\ k < taken /\ cut' = k
      /\ procs' = {p \in procs : p[1] \notin old}
      /\ store' = [n \in DOMAIN store \ old |-> store[n]]
      /\ UNCHANGED <<up, starts, taken, base, colSeq, svcSeq, latest, unsaved, subs, ghosts, wire, past, cursor, told, got, losses>>
  BY DEF Purge, gateway, server, browser
<1>2. /\ taken \in 0..MaxTicks /\ base \in 0..taken /\ cut \in 0..MaxTicks
      /\ DOMAIN store \subseteq 1..MaxTicks /\ \A n \in DOMAIN store : store[n] \in 1..taken
  BY DEF FeedInv, TypeOK
<1>3. /\ DOMAIN store' = DOMAIN store \ old
      /\ \A n \in DOMAIN store' : store'[n] = store[n]
      /\ \A n \in DOMAIN store : store[n] > k => n \in DOMAIN store'
  BY <1>1, <1>2
<1>4. TypeOK'
  <2>1. procs' \subseteq (1..MaxTicks) \X (1..MaxTicks)
    BY <1>1 DEF FeedInv, TypeOK
  <2> HIDE DEF old
  <2> QED
    BY <1>1, <1>2, <1>3, <2>1 DEF FeedInv, TypeOK
<1>5. Counters' /\ Rows'
  BY <1>1, <1>3 DEF FeedInv, Counters, Rows
<1>6. ASSUME NEW s \in (base + 1)..taken
      PROVE  Kept(s)'
  <2>1. Kept(s)
    BY DEF FeedInv
  <2>2. CASE s <= k
    BY <1>1, <2>2 DEF Kept
  <2>3. CASE s > k
    BY <1>1, <1>2, <1>3, <2>1, <2>3 DEF Kept
  <2> QED
    BY <1>2, <2>2, <2>3
<1>7. ASSUME NEW s \in Seq(Frames), HonestSeq(s, base, taken, Gone, procs)
      PROVE  HonestSeq(s, base, taken, Gone', procs')
  <2> SUFFICES ASSUME NEW i \in DOMAIN s, s[i].kind # "gap", s[i].snap > base
               PROVE  Honest(s[i], base, taken, Gone', procs')
    BY DEF HonestSeq, Honest
  <2>1. s[i] \in Frames /\ Honest(s[i], base, taken, Gone, procs)
    BY <1>7 DEF HonestSeq
  <2>2. s[i].snap \in (base + 1)..taken /\ s[i].seq = s[i].snap - base
    BY <1>2, <2>1 DEF Frames, Honest
  <2>3. Kept(s[i].snap)
    BY <2>2 DEF FeedInv
  <2>4. Gone \subseteq Gone' /\ \A m \in 0..k : m \in Gone'
    BY <1>1, <1>2 DEF Gone
  <2>5. CASE s[i].snap \in Gone'
    BY <2>1, <2>5 DEF Honest
  <2>6. CASE s[i].snap \notin Gone'
    <3>1. s[i].snap > k /\ s[i].snap \notin Gone
      BY <1>2, <2>2, <2>4, <2>6
    <3>2. store[s[i].seq] = s[i].snap /\ s[i].seq \in DOMAIN store
      BY <1>2, <2>2, <2>3, <3>1 DEF Kept, Gone
    <3>3. s[i].seq \notin old
      BY <1>2, <2>2, <3>1, <3>2
    <3>4. <<s[i].seq, s[i].snap>> \in procs => <<s[i].seq, s[i].snap>> \in procs'
      BY <1>1, <3>3
    <3> QED
      BY <2>1, <3>1, <3>4 DEF Honest
  <2> QED
    BY <2>5, <2>6
<1>8. \A c \in Clients : GoodFrames(wire[c])' /\ GoodFrames(got[c])'
  BY <1>1, <1>7 DEF FeedInv, GoodFrames, TypeOK
<1> QED
  BY <1>1, <1>4, <1>5, <1>6, <1>8 DEF FeedInv

LEMMA ConnectFeed ==
    ASSUME FeedInv, NEW c \in Clients, Connect(c) PROVE FeedInv'
<1> USE HostFeedAssumption
<1>1. PICK backlog \in Backlogs(cursor[c]) :
        /\ wire' = [wire EXCEPT ![c] = backlog \o GapFrames(cursor[c], backlog)]
        /\ past' = IF cursor[c] < 0 THEN past
                   ELSE LET served == {backlog[i].seq : i \in DOMAIN backlog}
                        IN  [past EXCEPT ![c] = @ \cup (RowsAfter(cursor[c]) \ served)]
  BY DEF Connect
<1>2. /\ up /\ subs' = subs \cup {c} /\ cursor[c] \in NoCursor..MaxTicks
      /\ UNCHANGED <<up, starts, taken, base, colSeq, svcSeq, latest, store, procs, unsaved, cut, ghosts, cursor, told, got, losses>>
  BY DEF Connect, FeedInv, TypeOK, gateway, tables, browser
<1>3. /\ backlog \in Seq(Frames) /\ GoodFrames(backlog)
      /\ \A i \in DOMAIN backlog : backlog[i].seq \in 1..MaxTicks
  BY <1>2, BacklogGood
<1>4. GapFrames(cursor[c], backlog) \in Seq(Frames) /\ GoodFrames(GapFrames(cursor[c], backlog))
  BY <1>2, <1>3, GapGood
<1>5. /\ backlog \o GapFrames(cursor[c], backlog) \in Seq(Frames)
      /\ HonestSeq(backlog \o GapFrames(cursor[c], backlog), base, taken, Gone, procs)
  BY <1>3, <1>4, Joined DEF GoodFrames
<1>6. past' \in [Clients -> SUBSET (1..MaxTicks)]
  <2>1. RowsAfter(cursor[c]) \subseteq 1..MaxTicks
    BY DEF RowsAfter, FeedInv, TypeOK
  <2> QED
    BY <1>1, <2>1 DEF FeedInv, TypeOK
<1>7. /\ wire' \in [Clients -> Seq(Frames)]
      /\ \A d \in Clients : HonestSeq(wire'[d], base, taken, Gone, procs)
  BY <1>1, <1>5 DEF FeedInv, TypeOK, GoodFrames
<1>8. TypeOK'
  BY <1>2, <1>6, <1>7 DEF FeedInv, TypeOK
<1>9. Counters' /\ Rows' /\ \A s \in (base + 1)..taken : Kept(s)'
  BY <1>2 DEF FeedInv, Counters, Rows, Kept
<1>10. \A d \in Clients : GoodFrames(wire[d])' /\ GoodFrames(got[d])'
  BY <1>2, <1>7 DEF FeedInv, GoodFrames, Gone
<1> QED
  BY <1>2, <1>8, <1>9, <1>10 DEF FeedInv

LEMMA ReceiveFeed ==
    ASSUME FeedInv, NEW c \in Clients, Receive(c) PROVE FeedInv'
<1> USE HostFeedAssumption
<1> DEFINE f == Head(wire[c])
<1>1. /\ wire[c] \in Seq(Frames) /\ got[c] \in Seq(Frames) /\ wire[c] # <<>>
      /\ HonestSeq(wire[c], base, taken, Gone, procs) /\ HonestSeq(got[c], base, taken, Gone, procs)
  BY DEF Receive, FeedInv, TypeOK, GoodFrames
<1>2. f \in Frames /\ Honest(f, base, taken, Gone, procs)
  <2>1. 1 \in DOMAIN wire[c] /\ f = wire[c][1]
    BY <1>1
  <2> QED
    BY <1>1, <2>1 DEF HonestSeq
<1>3. Tail(wire[c]) \in Seq(Frames) /\ HonestSeq(Tail(wire[c]), base, taken, Gone, procs)
  <2>1. \A i \in DOMAIN Tail(wire[c]) : i + 1 \in DOMAIN wire[c] /\ Tail(wire[c])[i] = wire[c][i + 1]
    BY <1>1
  <2> QED
    BY <1>1, <2>1 DEF HonestSeq
<1>4. Append(got[c], f) \in Seq(Frames) /\ HonestSeq(Append(got[c], f), base, taken, Gone, procs)
  <2>1. <<f>> \in Seq(Frames) /\ HonestSeq(<<f>>, base, taken, Gone, procs)
    BY <1>2, FewFrames
  <2>2. Append(got[c], f) = got[c] \o <<f>>
    BY <1>1, <1>2
  <2> HIDE DEF f
  <2>3. got[c] \o <<f>> \in Seq(Frames) /\ HonestSeq(got[c] \o <<f>>, base, taken, Gone, procs)
    BY <1>1, <2>1, Joined
  <2> QED
    BY <2>2, <2>3
<1>5. wire' = [wire EXCEPT ![c] = Tail(@)] /\ UNCHANGED <<gateway, tables, server, past, losses>>
  BY DEF Receive
<1>6. \/ f.kind = "gap" /\ told' = [told EXCEPT ![c] = @ \cup f.seq..f.snap] /\ UNCHANGED <<cursor, got>>
      \/ f.kind # "gap" /\ cursor' = [cursor EXCEPT ![c] = f.seq] /\ got' = [got EXCEPT ![c] = Append(@, f)] /\ told' = told
  BY DEF Receive
<1>7. /\ cursor' \in [Clients -> NoCursor..MaxTicks] /\ told' \in [Clients -> SUBSET Nat]
      /\ got' \in [Clients -> Seq(Frames)]
      /\ \A d \in Clients : HonestSeq(got'[d], base, taken, Gone, procs)
  <2>1. cursor \in [Clients -> NoCursor..MaxTicks] /\ told \in [Clients -> SUBSET Nat] /\ got \in [Clients -> Seq(Frames)]
    BY DEF FeedInv, TypeOK
  <2>2. \A d \in Clients : HonestSeq(got[d], base, taken, Gone, procs)
    BY DEF FeedInv, GoodFrames
  <2>3. CASE f.kind = "gap"
    <3>1. f.seq \in Nat /\ f.snap \in Nat
      BY <1>2, <2>3 DEF Frames
    <3>2. f.seq..f.snap \subseteq Nat
      BY <3>1
    <3> HIDE DEF f
    <3>3. told' = [told EXCEPT ![c] = @ \cup f.seq..f.snap] /\ UNCHANGED <<cursor, got>>
      BY <1>6, <2>3
    <3>4. told' \in [Clients -> SUBSET Nat]
      BY <2>1, <3>2, <3>3
    <3> QED
      BY <2>1, <2>2, <3>3, <3>4
  <2>4. CASE f.kind # "gap"
    <3>1. f.seq \in 1..MaxTicks
      BY <1>2, <2>4 DEF Frames
    <3>2. f.seq \in NoCursor..MaxTicks
      BY <3>1 DEF NoCursor
    <3> HIDE DEF f
    <3> QED
      BY <1>4, <1>6, <2>1, <2>2, <2>4, <3>2
  <2> QED
    BY <2>3, <2>4
<1> HIDE DEF f
<1>8. /\ wire' \in [Clients -> Seq(Frames)]
      /\ \A d \in Clients : HonestSeq(wire'[d], base, taken, Gone, procs)
  BY <1>3, <1>5 DEF FeedInv, TypeOK, GoodFrames
<1>9. TypeOK'
  BY <1>5, <1>7, <1>8 DEF FeedInv, TypeOK, gateway, tables, server
<1>10. Counters' /\ Rows' /\ \A s \in (base' + 1)..taken' : Kept(s)'
  BY <1>5 DEF FeedInv, Counters, Rows, Kept, gateway, tables
<1>11. \A d \in Clients : GoodFrames(wire[d])' /\ GoodFrames(got[d])'
  BY <1>5, <1>7, <1>8 DEF GoodFrames, Gone, gateway, tables
<1> QED
  BY <1>9, <1>10, <1>11 DEF FeedInv

LEMMA LoseFeed ==
    ASSUME FeedInv, NEW c \in Clients, Lose(c) PROVE FeedInv'
<1>1. /\ UNCHANGED <<gateway, tables, past, browser>> /\ wire' = [wire EXCEPT ![c] = <<>>]
      /\ subs' \subseteq Clients /\ ghosts' \in Nat /\ losses' \in 0..MaxLosses
  BY HostFeedAssumption DEF Lose, FeedInv, TypeOK
<1>2. /\ wire' \in [Clients -> Seq(Frames)]
      /\ \A d \in Clients : wire'[d] = wire[d] \/ wire'[d] = <<>>
  BY <1>1 DEF FeedInv, TypeOK
<1>3. \A d \in Clients : HonestSeq(wire'[d], base, taken, Gone, procs)
  BY <1>2 DEF FeedInv, GoodFrames, HonestSeq
<1> QED
  BY <1>1, <1>2, <1>3, QuietFeed

LEMMA CleanupFeed == ASSUME FeedInv, Cleanup PROVE FeedInv'
<1>1. /\ UNCHANGED <<gateway, tables, past, browser>> /\ wire' = wire
      /\ subs' \subseteq Clients /\ ghosts' \in Nat /\ losses' \in 0..MaxLosses
  BY DEF Cleanup, FeedInv, TypeOK
<1> QED
  BY <1>1, QuietFeed DEF FeedInv, TypeOK, GoodFrames

LEMMA FeedStep == FeedInv /\ [Next]_vars => FeedInv'
<1> SUFFICES ASSUME FeedInv, [Next]_vars PROVE FeedInv'
  OBVIOUS
<1>1. ASSUME NEW discovered \in BOOLEAN, NEW saved \in BOOLEAN, Tick(discovered, saved) PROVE FeedInv'
  BY <1>1, TickFeed
<1>2. ASSUME NEW discovered \in BOOLEAN, StopInTick(discovered) PROVE FeedInv'
  BY <1>2, StopInTickFeed
<1>3. CASE Stop
  BY <1>3, StopFeed
<1>4. CASE Start
  BY <1>4, StartFeed
<1>5. ASSUME NEW k \in 1..MaxTicks, Purge(k) PROVE FeedInv'
  BY <1>5, PurgeFeed
<1>6. ASSUME NEW c \in Clients, Connect(c) PROVE FeedInv'
  BY <1>6, ConnectFeed
<1>7. ASSUME NEW c \in Clients, Receive(c) PROVE FeedInv'
  BY <1>7, ReceiveFeed
<1>8. ASSUME NEW c \in Clients, Lose(c) PROVE FeedInv'
  BY <1>8, LoseFeed
<1>9. CASE Cleanup
  BY <1>9, CleanupFeed
<1>10. CASE UNCHANGED vars
  <2>1. /\ UNCHANGED <<gateway, tables, past, browser>> /\ wire' = wire
        /\ subs' \subseteq Clients /\ ghosts' \in Nat /\ losses' \in 0..MaxLosses
    BY <1>10 DEF vars, server, FeedInv, TypeOK
  <2> QED
    BY <2>1, QuietFeed DEF FeedInv, TypeOK, GoodFrames
<1> QED
  BY <1>1, <1>2, <1>3, <1>4, <1>5, <1>6, <1>7, <1>8, <1>9, <1>10 DEF Next

-----------------------------------------------------------------------------
(* The state of the stream keeps its types.                                *)
THEOREM FeedTypes == Spec => []TypeOK
<1>1. FeedInv => TypeOK
  BY DEF FeedInv
<1> QED
  BY <1>1, InitFeed, FeedStep, PTL DEF Spec

(* An honest frame of this start names a row that is kept.                 *)
LEMMA HonestIsStored ==
    ASSUME FeedInv, NEW f \in Frames, f.kind # "gap", Honest(f, base, taken, Gone, procs),
           f.snap > base, f.snap \notin unsaved, f.snap > cut
    PROVE  /\ f.seq \in DOMAIN store
           /\ store[f.seq] = f.snap
           /\ f.kind = "processes" => <<f.seq, f.snap>> \in procs
<1>1. base \in Nat /\ cut \in Nat /\ taken \in Nat /\ f.snap \in Nat
  BY HostFeedAssumption DEF FeedInv, TypeOK, Frames
<1>2. f.seq = f.snap - base /\ f.snap \in (base + 1)..taken
  BY <1>1 DEF Honest
<1>3. Kept(f.snap) /\ f.snap \notin Gone
  BY <1>1, <1>2 DEF FeedInv, Gone
<1> QED
  BY <1>1, <1>2, <1>3 DEF Kept, Honest

(* Persist before publish (systemStream.ts tick): whatever a client was    *)
(* sent by the running gateway can be fetched under its number, with its   *)
(* processes, unless the save failed or the row was purged; no crash,      *)
(* restart or lost connection changes that.                                *)
THEOREM FeedStoredBeforeSeen == Spec => []StoredBeforeSeen
<1>1. FeedInv => StoredBeforeSeen
  <2> SUFFICES ASSUME FeedInv PROVE StoredBeforeSeen
    OBVIOUS
  <2>1. base \in Nat /\ cut \in Nat
    BY DEF FeedInv, TypeOK
  <2>2. ASSUME NEW c \in Clients, NEW s, s \in Seq(Frames), GoodFrames(s), NEW f \in Events(s)
        PROVE  \/ f.snap <= base
               \/ f.snap \in unsaved
               \/ f.snap <= cut
               \/ /\ f.seq \in DOMAIN store
                  /\ store[f.seq] = f.snap
                  /\ f.kind = "processes" => <<f.seq, f.snap>> \in procs
    <3>1. f \in Frames /\ f.kind # "gap" /\ Honest(f, base, taken, Gone, procs)
      BY <2>2 DEF Events, GoodFrames, HonestSeq
    <3>2. f.snap \in Nat
      BY <3>1, HostFeedAssumption DEF Frames
    <3> QED
      BY <2>1, <3>1, <3>2, HonestIsStored
  <2>3. \A c \in Clients : /\ wire[c] \in Seq(Frames) /\ GoodFrames(wire[c])
                           /\ got[c] \in Seq(Frames) /\ GoodFrames(got[c])
    BY DEF FeedInv, TypeOK
  <2> QED
    BY <2>2, <2>3 DEF StoredBeforeSeen, Seen
<1> QED
  BY <1>1, InitFeed, FeedStep, PTL DEF Spec

-----------------------------------------------------------------------------
(* ResumeIsExact speaks of what a client received; whether the next frame  *)
(* keeps it true depends on what is on its way.  The strengthening follows *)
(* the frames from the wire to the client: they are in order, nothing the  *)
(* client got comes after them (InSequence), the cursor is the last number *)
(* received (AtCursor), every number up to it is accounted for (Behind),   *)
(* and every number after it is on the wire or is one the client cannot be *)
(* sent any more (Onward).                                                 *)
Ahead(f, g) ==
    \/ f.seq < g.seq
    \/ f.seq = g.seq /\ f.kind = "processes" /\ g.kind = "snapshot"

InOrder(s) ==
    \A i, j \in DOMAIN s :
        (i < j /\ s[i].kind # "gap" /\ s[j].kind # "gap") => Ahead(s[i], s[j])

InSequence(c) ==
    /\ InOrder(wire[c])
    /\ \A i \in DOMAIN got[c] : \A f \in Events(wire[c]) : Ahead(got[c][i], f)

AtCursor(c) ==
    /\ \A i \in DOMAIN got[c] : got[c][i].kind # "gap" /\ got[c][i].seq <= cursor[c]
    /\ got[c] = <<>> <=> cursor[c] = NoCursor

Behind(c) ==
    got[c] # <<>> => \A n \in got[c][1].seq..cursor[c] : Has(c, n) \/ Excused(c, n)

Lost(c, n) == n \in unsaved \/ n <= cut \/ n \in past[c]

OnTheWay(c, n) == \E f \in Events(wire[c]) : f.kind = "snapshot" /\ f.seq = n

Due(c, n) == (cursor[c] # NoCursor /\ cursor[c] < n) \/ \E f \in Events(wire[c]) : f.seq <= n

Onward(c) == \A n \in 1..taken : Due(c, n) => OnTheWay(c, n) \/ Lost(c, n)

Exact(c) ==
    /\ InOrder(got[c])
    /\ AtCursor(c)
    /\ Behind(c)
    /\ c \in subs => InSequence(c) /\ Onward(c)

ResumeInv == starts = 1 => base = 0 /\ \A c \in Clients : Exact(c)

(* What is on its way to a client of the first start, or was received, is  *)
(* numbered with the snapshots taken.                                      *)
LEMMA EventNumbers ==
    ASSUME FeedInv, base = 0, NEW s \in Seq(Frames), GoodFrames(s), NEW f \in Events(s)
    PROVE  f \in Frames /\ f.kind \in {"snapshot", "processes"} /\ f.seq \in 1..taken
<1>1. f \in Frames /\ f.kind # "gap" /\ Honest(f, base, taken, Gone, procs)
  BY DEF Events, GoodFrames, HonestSeq
<1>2. f.kind \in {"snapshot", "processes"} /\ f.seq \in 1..MaxTicks /\ f.snap \in 1..MaxTicks
  BY <1>1, HostFeedAssumption DEF Frames
<1>3. taken \in Nat
  BY HostFeedAssumption DEF FeedInv, TypeOK
<1> QED
  BY <1>1, <1>2, <1>3, HostFeedAssumption DEF Honest

LEMMA EventsJoined ==
    ASSUME NEW s \in Seq(Frames), NEW t \in Seq(Frames)
    PROVE  Events(s \o t) = Events(s) \cup Events(t)
<1>1. \A i \in DOMAIN (s \o t) :
        \/ i \in DOMAIN s /\ (s \o t)[i] = s[i]
        \/ i - Len(s) \in DOMAIN t /\ (s \o t)[i] = t[i - Len(s)]
  OBVIOUS
<1>2. \A i \in DOMAIN s : i \in DOMAIN (s \o t) /\ (s \o t)[i] = s[i]
  OBVIOUS
<1>3. \A i \in DOMAIN t : i + Len(s) \in DOMAIN (s \o t) /\ (s \o t)[i + Len(s)] = t[i]
  OBVIOUS
<1>4. Events(s \o t) \subseteq Events(s) \cup Events(t)
  BY <1>1 DEF Events
<1>5. Events(s) \subseteq Events(s \o t)
  BY <1>2 DEF Events
<1>6. Events(t) \subseteq Events(s \o t)
  <2> SUFFICES ASSUME NEW i \in DOMAIN t, t[i].kind # "gap" PROVE t[i] \in Events(s \o t)
    BY DEF Events
  <2>1. i + Len(s) \in DOMAIN (s \o t) /\ (s \o t)[i + Len(s)] = t[i]
    BY <1>3
  <2> QED
    BY <2>1 DEF Events
<1> QED
  BY <1>4, <1>5, <1>6

LEMMA EventsOfOne ==
    ASSUME NEW f \in Frames
    PROVE  /\ <<f>> \in Seq(Frames) /\ InOrder(<<f>>)
           /\ Events(<<f>>) = IF f.kind = "gap" THEN {} ELSE {f}
<1>1. DOMAIN <<f>> = {1} /\ <<f>>[1] = f /\ <<f>> \in Seq(Frames)
  OBVIOUS
<1> QED
  BY <1>1 DEF Events, InOrder

LEMMA OneMore ==
    ASSUME NEW s \in Seq(Frames), NEW f \in Frames
    PROVE  /\ Len(s \o <<f>>) = Len(s) + 1 /\ s \o <<f>> # <<>>
           /\ \A i \in DOMAIN (s \o <<f>>) : \/ i \in DOMAIN s /\ (s \o <<f>>)[i] = s[i]
                                             \/ (s \o <<f>>)[i] = f
           /\ s = <<>> => (s \o <<f>>)[1] = f
           /\ s # <<>> => (s \o <<f>>)[1] = s[1] /\ 1 \in DOMAIN s
<1>1. Len(s) \in Nat /\ Len(s \o <<f>>) = Len(s) + 1 /\ DOMAIN s = 1..Len(s)
  OBVIOUS
<1>2. \A i \in 1..Len(s) + 1 : (s \o <<f>>)[i] = IF i <= Len(s) THEN s[i] ELSE f
  OBVIOUS
<1>3. DOMAIN (s \o <<f>>) = 1..Len(s) + 1
  OBVIOUS
<1>4. s # <<>> => Len(s) # 0
  OBVIOUS
<1> QED
  BY <1>1, <1>2, <1>3, <1>4

LEMMA OrderJoined ==
    ASSUME NEW s \in Seq(Frames), NEW t \in Seq(Frames), InOrder(s), InOrder(t),
           \A f \in Events(s), g \in Events(t) : Ahead(f, g)
    PROVE  InOrder(s \o t)
<1> SUFFICES ASSUME NEW i \in DOMAIN (s \o t), NEW j \in DOMAIN (s \o t), i < j,
                    (s \o t)[i].kind # "gap", (s \o t)[j].kind # "gap"
             PROVE  Ahead((s \o t)[i], (s \o t)[j])
  BY DEF InOrder
<1>1. /\ i \in Nat /\ j \in Nat
      /\ \/ i \in DOMAIN s /\ (s \o t)[i] = s[i]
         \/ i - Len(s) \in DOMAIN t /\ (s \o t)[i] = t[i - Len(s)] /\ i > Len(s)
      /\ \/ j \in DOMAIN s /\ (s \o t)[j] = s[j]
         \/ j - Len(s) \in DOMAIN t /\ (s \o t)[j] = t[j - Len(s)] /\ j > Len(s)
  OBVIOUS
<1>2. CASE j \in DOMAIN s /\ (s \o t)[j] = s[j]
  <2>1. i \in DOMAIN s /\ (s \o t)[i] = s[i]
    BY <1>1, <1>2
  <2> QED
    BY <1>2, <2>1 DEF InOrder
<1>3. CASE j - Len(s) \in DOMAIN t /\ (s \o t)[j] = t[j - Len(s)] /\ i \in DOMAIN s /\ (s \o t)[i] = s[i]
  BY <1>3 DEF Events
<1>4. CASE /\ j - Len(s) \in DOMAIN t /\ (s \o t)[j] = t[j - Len(s)]
           /\ i - Len(s) \in DOMAIN t /\ (s \o t)[i] = t[i - Len(s)]
  <2>1. i - Len(s) < j - Len(s)
    BY <1>1
  <2> QED
    BY <1>4, <2>1 DEF InOrder
<1> QED
  BY <1>1, <1>2, <1>3, <1>4

(* The first frame of a wire and those after it.                           *)
LEMMA EventsTaken ==
    ASSUME NEW w \in Seq(Frames), w # <<>>, InOrder(w)
    PROVE  /\ Head(w) \in Frames /\ Tail(w) \in Seq(Frames) /\ InOrder(Tail(w))
           /\ Head(w).kind = "gap" => Events(w) = Events(Tail(w))
           /\ Head(w).kind # "gap" => /\ Events(w) = {Head(w)} \cup Events(Tail(w))
                                      /\ \A g \in Events(Tail(w)) : Ahead(Head(w), g)
<1> DEFINE t == Tail(w)
<1>1. t \in Seq(Frames) /\ 1 \in DOMAIN w /\ Head(w) = w[1] /\ w[1] \in Frames
  OBVIOUS
<1>2. \A i \in DOMAIN t : i + 1 \in DOMAIN w /\ t[i] = w[i + 1] /\ i \in Nat /\ 1 < i + 1
  OBVIOUS
<1>3. \A i \in DOMAIN w : i = 1 \/ (i - 1 \in DOMAIN t /\ t[i - 1] = w[i])
  OBVIOUS
<1> HIDE DEF t
<1>4. InOrder(t)
  <2> SUFFICES ASSUME NEW i \in DOMAIN t, NEW j \in DOMAIN t, i < j, t[i].kind # "gap", t[j].kind # "gap"
               PROVE  Ahead(t[i], t[j])
    BY DEF InOrder
  <2>1. i + 1 < j + 1
    BY <1>2
  <2> QED
    BY <1>2, <2>1 DEF InOrder
<1>5. Events(t) \subseteq Events(w)
  BY <1>2 DEF Events
<1>6. \A g \in Events(w) : g = w[1] \/ g \in Events(t)
  BY <1>3 DEF Events
<1>7. Head(w).kind = "gap" => Events(w) = Events(t)
  <2>1. \A g \in Events(w) : g.kind # "gap"
    BY DEF Events
  <2> QED
    BY <1>1, <1>5, <1>6, <2>1
<1>8. Head(w).kind # "gap" => Events(w) = {Head(w)} \cup Events(t)
  <2>1. Head(w).kind # "gap" => Head(w) \in Events(w)
    BY <1>1 DEF Events
  <2> QED
    BY <1>1, <1>5, <1>6, <2>1
<1>9. ASSUME Head(w).kind # "gap", NEW g \in Events(t) PROVE Ahead(Head(w), g)
  <2>1. PICK i \in DOMAIN t : g = t[i] /\ t[i].kind # "gap"
    BY DEF Events
  <2> QED
    BY <1>1, <1>2, <1>9, <2>1 DEF InOrder
<1> QED
  BY <1>1, <1>4, <1>7, <1>8, <1>9 DEF t

-----------------------------------------------------------------------------
(* A client none of whose frames move: what it missed stays accounted for. *)
LEMMA ClientQuiet ==
    ASSUME FeedInv, NEW c \in Clients, Exact(c),
           got'[c] = got[c], cursor'[c] = cursor[c], told[c] \subseteq told'[c],
           unsaved \subseteq unsaved', cut \in Nat, cut' \in Nat, cut <= cut', past[c] \subseteq past'[c],
           c \in subs' => c \in subs /\ wire'[c] = wire[c] /\ taken' = taken
    PROVE  Exact(c)'
<1>1. (InOrder(got[c]) /\ AtCursor(c))'
  BY DEF Exact, AtCursor
<1>2. taken \in Nat /\ cursor[c] \in Int
  BY HostFeedAssumption DEF FeedInv, TypeOK, NoCursor
<1>3. Behind(c)'
  <2> SUFFICES ASSUME got[c] # <<>>, NEW n \in got[c][1].seq..cursor[c]
               PROVE  (Has(c, n) \/ Excused(c, n))'
    BY DEF Behind
  <2>1. Has(c, n) \/ Excused(c, n)
    BY DEF Exact, Behind
  <2>2. n \in Int
    OBVIOUS
  <2> QED
    BY <2>1, <2>2 DEF Has, Excused, Seen
<1>4. ASSUME c \in subs' PROVE (InSequence(c) /\ Onward(c))'
  <2>1. c \in subs /\ wire'[c] = wire[c] /\ taken' = taken
    BY <1>4
  <2>2. InSequence(c)'
    BY <2>1 DEF Exact, InSequence
  <2>3. \A n \in 1..taken : Lost(c, n) => Lost(c, n)'
    BY <1>2 DEF Lost
  <2>4. Onward(c)'
    BY <2>1, <2>3 DEF Exact, Onward, Due, OnTheWay
  <2> QED
    BY <2>2, <2>4
<1> QED
  BY <1>1, <1>3, <1>4 DEF Exact

LEMMA InitResume == Init => ResumeInv
<1> SUFFICES ASSUME Init PROVE base = 0 /\ \A c \in Clients : Exact(c)
  BY DEF ResumeInv
<1>0. base = 0
  BY DEF Init
<1> SUFFICES ASSUME NEW c \in Clients PROVE Exact(c)
  BY <1>0
<1>1. got[c] = <<>> /\ cursor[c] = NoCursor /\ subs = {} /\ base = 0
  BY DEF Init
<1> QED
  BY <1>1 DEF Exact, InOrder, AtCursor, Behind

(* A tick appends frames above every number there is.                      *)
LEMMA TickResume ==
    ASSUME FeedInv, starts = 1, base = 0, NEW c \in Clients, Exact(c), c \in subs,
           NEW discovered \in BOOLEAN, NEW saved \in BOOLEAN, Tick(discovered, saved)
    PROVE  Exact(c)'
<1> USE HostFeedAssumption
<1> DEFINE frames == TickFrames(discovered, taken + 1)
           s == Snapshot(taken + 1, taken + 1)
           p == Processes(taken + 1, taken + 1)
<1>1. /\ svcSeq = taken /\ taken \in Nat /\ taken + 1 \in 1..MaxTicks /\ taken' = taken + 1
      /\ cut' = cut /\ cut \in Nat /\ unsaved \subseteq unsaved'
      /\ UNCHANGED <<past, cursor, told, got, subs>>
      /\ wire'[c] = wire[c] \o frames
  BY DEF Tick, Collect, Published, FeedInv, Counters, TypeOK, server, browser
<1>2. wire[c] \in Seq(Frames) /\ got[c] \in Seq(Frames) /\ GoodFrames(wire[c]) /\ GoodFrames(got[c]) /\ cursor[c] \in NoCursor..MaxTicks
  BY DEF FeedInv, TypeOK
<1>3. s \in Frames /\ p \in Frames /\ s.kind = "snapshot" /\ p.kind = "processes" /\ s.seq = taken + 1 /\ p.seq = taken + 1
  BY <1>1 DEF Snapshot, Processes, Frames
<1>4. /\ frames \in Seq(Frames) /\ InOrder(frames)
      /\ s \in Events(frames)
      /\ \A f \in Events(frames) : f.seq = taken + 1
  <2> HIDE DEF s, p
  <2>1. CASE ~discovered
    <3>1. frames = <<s>>
      BY <1>1, <2>1 DEF TickFrames, s
    <3> QED
      BY <1>3, <3>1, EventsOfOne
  <2>2. CASE discovered
    <3>1. frames = <<p>> \o <<s>>
      BY <1>1, <2>2 DEF TickFrames, s, p
    <3>2. /\ <<p>> \in Seq(Frames) /\ InOrder(<<p>>) /\ Events(<<p>>) = {p}
          /\ <<s>> \in Seq(Frames) /\ InOrder(<<s>>) /\ Events(<<s>>) = {s}
      BY <1>3, EventsOfOne
    <3>3. Ahead(p, s)
      BY <1>3 DEF Ahead
    <3>4. InOrder(<<p>> \o <<s>>)
      BY <3>2, <3>3, OrderJoined
    <3>5. Events(<<p>> \o <<s>>) = {p, s}
      BY <3>2, EventsJoined
    <3>6. <<p>> \o <<s>> \in Seq(Frames)
      BY <3>2
    <3> QED
      BY <1>3, <3>1, <3>4, <3>5, <3>6
  <2> QED
    BY <2>1, <2>2
<1> HIDE DEF frames, s, p
<1>5. \A f \in Events(wire[c]) \cup Events(got[c]) : f.seq \in 1..taken
  BY <1>2, EventNumbers
<1>6. Events(wire'[c]) = Events(wire[c]) \cup Events(frames)
  BY <1>1, <1>2, <1>4, EventsJoined
<1>7. InSequence(c)'
  <2>1. \A f \in Events(wire[c]) \cup Events(got[c]), g \in Events(frames) : Ahead(f, g)
    BY <1>1, <1>4, <1>5 DEF Ahead
  <2>2. InOrder(wire'[c])
    BY <1>1, <1>2, <1>4, <2>1, OrderJoined DEF Exact, InSequence
  <2>3. \A i \in DOMAIN got[c] : got[c][i] \in Events(got[c])
    BY DEF Events, Exact, AtCursor
  <2>4. \A i \in DOMAIN got[c] : \A f \in Events(wire[c]) : Ahead(got[c][i], f)
    BY DEF Exact, InSequence
  <2> QED
    BY <1>1, <1>6, <2>1, <2>2, <2>3, <2>4 DEF InSequence
<1>8. Onward(c)'
  <2> SUFFICES ASSUME NEW n \in 1..(taken + 1), Due(c, n)' PROVE (OnTheWay(c, n) \/ Lost(c, n))'
    BY <1>1 DEF Onward
  <2>1. CASE n = taken + 1
    BY <1>3, <1>4, <1>6, <2>1 DEF OnTheWay
  <2>2. CASE n # taken + 1
    <3>1. n \in 1..taken
      BY <1>1, <2>2
    <3>2. Due(c, n)
      BY <1>1, <1>4, <1>6, <3>1 DEF Due
    <3>3. OnTheWay(c, n) \/ Lost(c, n)
      BY <3>1, <3>2 DEF Exact, Onward
    <3> QED
      BY <1>1, <1>6, <3>3 DEF OnTheWay, Lost
  <2> QED
    BY <2>1, <2>2
<1>9. (InOrder(got[c]) /\ AtCursor(c))'
  BY <1>1 DEF Exact, AtCursor
<1>10. Behind(c)'
  <2> SUFFICES ASSUME got[c] # <<>>, NEW n \in got[c][1].seq..cursor[c]
               PROVE  (Has(c, n) \/ Excused(c, n))'
    BY <1>1 DEF Behind
  <2>1. Has(c, n) \/ Excused(c, n)
    BY DEF Exact, Behind
  <2> QED
    BY <1>1, <2>1 DEF Has, Excused, Seen
<1> QED
  BY <1>7, <1>8, <1>9, <1>10 DEF Exact


(* The rows a resume is served, in the first start: those after the cursor *)
(* in order, each under its own number; the rows of the others are passed  *)
(* over, and what has no row was not saved or was purged.                  *)
LEMMA ResumeServed ==
    ASSUME FeedInv, base = 0, NEW last \in 0..MaxTicks, NEW backlog \in Backlogs(last)
    PROVE  /\ backlog \in Seq(Frames)
           /\ InOrder(backlog)
           /\ \A f \in Events(backlog) : f.kind = "snapshot" /\ last < f.seq
           /\ \A n \in 1..taken :
                 last < n => \/ \E f \in Events(backlog) : f.seq = n
                             \/ n \in unsaved \/ n <= cut
                             \/ n \in RowsAfter(last) \ {backlog[i].seq : i \in DOMAIN backlog}
<1> USE HostFeedAssumption
<1>0. last \in Nat /\ ~(last < 0)
  OBVIOUS
<1>1. PICK batch \in ListAfter(last) :
         backlog = [i \in DOMAIN batch |-> Snapshot(batch[i], store[batch[i]])]
  BY <1>0 DEF Backlogs
<1>2. PICK k \in Nat : /\ batch \in [1..k -> DOMAIN store]
                       /\ \A i \in 1..k : batch[i] \in 1..MaxTicks /\ store[batch[i]] \in 1..taken
  BY <1>0, ListAfterRows
<1>3. taken \in 0..MaxTicks
  BY DEF FeedInv, TypeOK
<1>4. /\ DOMAIN batch = 1..k
      /\ \A i \in 1..k : batch[i] \in RowsAfter(last)
      /\ \A i, j \in 1..k : i < j => batch[i] < batch[j]
  <2> DEFINE rows == RowsAfter(last)
             size == IF Cardinality(rows) < ReplayBatch THEN Cardinality(rows) ELSE ReplayBatch
  <2> HIDE DEF rows
  <2>1. batch \in [1..size -> rows] /\ \A i, j \in 1..size : i < j => batch[i] < batch[j]
    BY DEF ListAfter, rows
  <2>2. DOMAIN batch = 1..k
    BY <1>2
  <2>3. 1..size = 1..k
    BY <2>1, <2>2
  <2> HIDE DEF size
  <2> QED
    BY <2>1, <2>2, <2>3 DEF rows
<1>5. \A i \in 1..k : /\ backlog[i] \in Frames
                      /\ backlog[i].kind = "snapshot" /\ backlog[i].seq = batch[i]
  BY <1>1, <1>2, <1>3, <1>4 DEF Snapshot, Frames
<1>6. backlog \in Seq(Frames) /\ DOMAIN backlog = 1..k
  BY <1>1, <1>2, <1>4, <1>5
<1>7. InOrder(backlog)
  BY <1>4, <1>5, <1>6 DEF InOrder, Ahead
<1>8. \A f \in Events(backlog) : f.kind = "snapshot" /\ last < f.seq
  BY <1>0, <1>2, <1>4, <1>5, <1>6 DEF Events, RowsAfter
<1>9. ASSUME NEW n \in 1..taken, last < n, n \notin unsaved, ~(n <= cut),
             n \notin RowsAfter(last) \ {backlog[i].seq : i \in DOMAIN backlog}
      PROVE  \E f \in Events(backlog) : f.seq = n
  <2>1. Kept(n) /\ n - base = n
    BY <1>3, <1>9 DEF FeedInv
  <2>2. n \in RowsAfter(last)
    BY <1>9, <2>1 DEF Kept, RowsAfter
  <2>3. PICK i \in DOMAIN backlog : backlog[i].seq = n
    BY <1>9, <2>2
  <2> QED
    BY <1>5, <1>6, <2>3 DEF Events
<1> QED
  BY <1>6, <1>7, <1>8, <1>9

(* A connection sends what the client's cursor calls for.                  *)
LEMMA ConnectResume ==
    ASSUME FeedInv, base = 0, NEW c \in Clients, Exact(c), Connect(c)
    PROVE  Exact(c)'
<1> USE HostFeedAssumption
<1>1. PICK backlog \in Backlogs(cursor[c]) :
        /\ wire' = [wire EXCEPT ![c] = backlog \o GapFrames(cursor[c], backlog)]
        /\ past' = IF cursor[c] < 0 THEN past
                   ELSE LET served == {backlog[i].seq : i \in DOMAIN backlog}
                        IN  [past EXCEPT ![c] = @ \cup (RowsAfter(cursor[c]) \ served)]
  BY DEF Connect
<1>2. /\ up /\ cursor[c] \in NoCursor..MaxTicks /\ taken \in 0..MaxTicks /\ cut \in Nat
      /\ wire \in [Clients -> Seq(Frames)] /\ got[c] \in Seq(Frames) /\ past \in [Clients -> SUBSET (1..MaxTicks)]
      /\ UNCHANGED <<taken, unsaved, cut, cursor, told, got>>
  BY DEF Connect, FeedInv, TypeOK, gateway, tables, browser
<1> DEFINE gaps == GapFrames(cursor[c], backlog)
<1>3. /\ backlog \in Seq(Frames) /\ \A i \in DOMAIN backlog : backlog[i].seq \in 1..MaxTicks
      /\ gaps \in Seq(Frames)
  BY <1>2, BacklogGood, GapGood
<1>4. InOrder(gaps) /\ Events(gaps) = {}
  <2>1. \A i \in DOMAIN gaps : gaps[i].kind = "gap"
    BY DEF GapFrames, Gap
  <2> QED
    BY <2>1 DEF InOrder, Events
<1> HIDE DEF gaps
<1>5. wire'[c] = backlog \o gaps /\ past[c] \subseteq past'[c]
  BY <1>1, <1>2 DEF gaps
<1>6. Events(wire'[c]) = Events(backlog)
  BY <1>3, <1>4, <1>5, EventsJoined
<1>7. (InOrder(got[c]) /\ AtCursor(c))'
  BY <1>2 DEF Exact, AtCursor
<1>8. Behind(c)'
  <2> SUFFICES ASSUME got[c] # <<>>, NEW n \in got[c][1].seq..cursor[c]
               PROVE  (Has(c, n) \/ Excused(c, n))'
    BY <1>2 DEF Behind
  <2>1. Has(c, n) \/ Excused(c, n)
    BY DEF Exact, Behind
  <2> QED
    BY <1>2, <1>5, <2>1 DEF Has, Excused, Seen
<1>9. (InSequence(c) /\ Onward(c))'
  <2>1. CASE cursor[c] < 0
    <3>1. cursor[c] = NoCursor /\ got[c] = <<>>
      BY <1>2, <2>1 DEF NoCursor, Exact, AtCursor
    <3>2. CASE latest = None
      <4>1. Events(backlog) = {} /\ InOrder(backlog)
        BY <2>1, <3>2 DEF Backlogs, Events, InOrder
      <4>2. InOrder(wire'[c])
        BY <1>3, <1>4, <1>5, <4>1, OrderJoined
      <4> QED
        BY <1>2, <1>6, <3>1, <4>1, <4>2 DEF InSequence, Onward, Due
    <3>3. CASE latest # None
      <4>1. backlog = <<Snapshot(svcSeq, latest)>> /\ svcSeq = taken
        BY <1>2, <2>1, <3>3 DEF Backlogs, FeedInv, Counters, TypeOK
      <4>2. Snapshot(svcSeq, latest) \in Frames
        <5>1. backlog[1] \in Frames /\ backlog[1] = Snapshot(svcSeq, latest)
          BY <1>3, <4>1
        <5> QED
          BY <5>1
      <4>3. InOrder(backlog) /\ Events(backlog) = {Snapshot(svcSeq, latest)}
        BY <4>1, <4>2, EventsOfOne DEF Snapshot
      <4>4. InOrder(wire'[c])
        BY <1>3, <1>4, <1>5, <4>3, OrderJoined
      <4>5. Onward(c)'
        BY <1>2, <1>6, <3>1, <4>1, <4>3 DEF Onward, Due, OnTheWay, Snapshot
      <4> QED
        BY <1>2, <3>1, <4>4, <4>5 DEF InSequence
    <3> QED
      BY <3>2, <3>3
  <2>2. CASE ~(cursor[c] < 0)
    <3>1. cursor[c] \in 0..MaxTicks
      BY <1>2, <2>2 DEF NoCursor
    <3>2. /\ InOrder(backlog)
          /\ \A f \in Events(backlog) : f.kind = "snapshot" /\ cursor[c] < f.seq
          /\ \A n \in 1..taken :
                cursor[c] < n => \/ \E f \in Events(backlog) : f.seq = n
                                 \/ n \in unsaved \/ n <= cut
                                 \/ n \in RowsAfter(cursor[c]) \ {backlog[i].seq : i \in DOMAIN backlog}
      BY <3>1, ResumeServed
    <3>3. InOrder(wire'[c])
      BY <1>3, <1>4, <1>5, <3>2, OrderJoined
    <3>4. ASSUME NEW i \in DOMAIN got[c], NEW f \in Events(backlog) PROVE Ahead(got[c][i], f)
      <4>1. got[c][i].seq <= cursor[c] /\ cursor[c] < f.seq /\ got[c][i].kind # "gap"
        BY <3>2, <3>4 DEF Exact, AtCursor
      <4>2. got[c][i].seq \in Int
        BY <1>2, <4>1 DEF Frames
      <4>3. f.seq \in Int
        BY <1>3, <3>4 DEF Events
      <4> QED
        BY <3>1, <4>1, <4>2, <4>3 DEF Ahead
    <3>5. InSequence(c)'
      BY <1>2, <1>6, <3>3, <3>4 DEF InSequence
    <3>6. Onward(c)'
      <4> SUFFICES ASSUME NEW n \in 1..taken, Due(c, n)' PROVE (OnTheWay(c, n) \/ Lost(c, n))'
        BY <1>2 DEF Onward
      <4>1. cursor[c] < n
        <5>1. \A f \in Events(backlog) : f.seq \in Int
          BY <1>3 DEF Events
        <5> QED
          BY <1>2, <1>6, <3>1, <3>2, <5>1 DEF Due
      <4>2. RowsAfter(cursor[c]) \ {backlog[i].seq : i \in DOMAIN backlog} \subseteq past'[c]
        BY <1>1, <1>2, <2>2
      <4> QED
        BY <1>2, <1>6, <3>2, <4>1, <4>2 DEF OnTheWay, Lost
    <3> QED
      BY <3>5, <3>6
  <2> QED
    BY <2>1, <2>2
<1> QED
  BY <1>7, <1>8, <1>9 DEF Exact

(* A frame moves from the wire to the client, and the cursor with it.      *)
LEMMA ReceiveResume ==
    ASSUME FeedInv, base = 0, NEW c \in Clients, Exact(c), Receive(c)
    PROVE  Exact(c)'
<1> USE HostFeedAssumption
<1> DEFINE f == Head(wire[c])
           rest == Tail(wire[c])
<1>1. /\ c \in subs /\ wire[c] # <<>> /\ wire'[c] = rest
      /\ UNCHANGED <<taken, unsaved, cut, past, subs>>
      /\ wire[c] \in Seq(Frames) /\ got[c] \in Seq(Frames) /\ taken \in Nat /\ cursor[c] \in NoCursor..MaxTicks
      /\ GoodFrames(wire[c]) /\ GoodFrames(got[c])
  BY DEF Receive, FeedInv, TypeOK, gateway, tables, server
<1>2. /\ \/ f.kind = "gap" /\ told[c] \subseteq told'[c] /\ got'[c] = got[c] /\ cursor'[c] = cursor[c]
         \/ f.kind # "gap" /\ told' = told /\ got'[c] = got[c] \o <<f>> /\ cursor'[c] = f.seq
  <2>1. /\ told \in [Clients -> SUBSET Nat] /\ cursor \in [Clients -> NoCursor..MaxTicks] /\ got \in [Clients -> Seq(Frames)]
        /\ f \in Frames
    BY <1>1 DEF FeedInv, TypeOK
  <2>2. Append(got[c], f) = got[c] \o <<f>>
    BY <1>1, <2>1
  <2> HIDE DEF f
  <2> QED
    BY <2>1, <2>2 DEF Receive, f
<1>3. InSequence(c) /\ Onward(c) /\ InOrder(wire[c]) /\ AtCursor(c) /\ Behind(c) /\ InOrder(got[c])
  BY <1>1 DEF Exact, InSequence
<1>4. /\ f \in Frames /\ rest \in Seq(Frames) /\ InOrder(rest)
      /\ f.kind = "gap" => Events(wire[c]) = Events(rest)
      /\ f.kind # "gap" => /\ Events(wire[c]) = {f} \cup Events(rest)
                           /\ \A g \in Events(rest) : Ahead(f, g)
  BY <1>1, <1>3, EventsTaken
<1> HIDE DEF f, rest
<1>5. CASE f.kind = "gap"
  <2>1. /\ told[c] \subseteq told'[c] /\ got'[c] = got[c] /\ cursor'[c] = cursor[c] /\ Events(rest) = Events(wire[c])
    BY <1>2, <1>4, <1>5
  <2>2. (InOrder(got[c]) /\ AtCursor(c))'
    BY <1>3, <2>1 DEF AtCursor
  <2>3. Behind(c)'
    BY <1>1, <1>3, <2>1 DEF Behind, Has, Excused, Seen
  <2>4. (InSequence(c) /\ Onward(c))'
    BY <1>1, <1>3, <1>4, <2>1 DEF InSequence, Onward, Due, OnTheWay, Lost
  <2> QED
    BY <2>2, <2>3, <2>4 DEF Exact
<1>6. CASE f.kind # "gap"
  <2> DEFINE one == <<f>>
  <2>1. /\ told' = told /\ got'[c] = got[c] \o one /\ cursor'[c] = f.seq
        /\ Events(wire[c]) = {f} \cup Events(rest) /\ \A g \in Events(rest) : Ahead(f, g)
    BY <1>2, <1>4, <1>6
  <2>2. f.kind \in {"snapshot", "processes"} /\ f.seq \in 1..taken
    BY <1>1, <2>1, EventNumbers
  <2>3. /\ one \in Seq(Frames) /\ InOrder(one) /\ Events(one) = {f}
    BY <1>4, <1>6, EventsOfOne
  <2>15. /\ got[c] \o one # <<>>
         /\ \A i \in DOMAIN (got[c] \o one) : \/ i \in DOMAIN got[c] /\ (got[c] \o one)[i] = got[c][i]
                                              \/ (got[c] \o one)[i] = f
         /\ got[c] = <<>> => (got[c] \o one)[1] = f
         /\ got[c] # <<>> => (got[c] \o one)[1] = got[c][1] /\ 1 \in DOMAIN got[c]
    BY <1>1, <1>4, OneMore
  <2> HIDE DEF one
  <2>4. Events(got'[c]) = Events(got[c]) \cup {f}
    BY <1>1, <2>1, <2>3, EventsJoined
  <2>5. \A i \in DOMAIN got[c] : Ahead(got[c][i], f)
    BY <1>3, <2>1 DEF InSequence
  <2>6. \A g \in Events(got[c]) : Ahead(g, f)
    BY <2>5 DEF Events
  <2>7. InOrder(got'[c])
    BY <1>1, <1>3, <2>1, <2>3, <2>6, OrderJoined
  <2>8. \A i \in DOMAIN got'[c] : \/ i \in DOMAIN got[c] /\ got'[c][i] = got[c][i]
                                  \/ got'[c][i] = f
    BY <2>1, <2>15
  <2>9. \A i \in DOMAIN got[c] : got[c][i].kind # "gap" /\ got[c][i].seq \in Int /\ got[c][i].seq <= f.seq
    <3> TAKE i \in DOMAIN got[c]
    <3>1. got[c][i].kind # "gap" /\ got[c][i] \in Frames
      BY <1>1, <1>3 DEF AtCursor
    <3>2. got[c][i].seq \in Int
      BY <3>1 DEF Frames
    <3> QED
      BY <2>2, <2>5, <3>1, <3>2 DEF Ahead
  <2>10. AtCursor(c)'
    <3>1. got'[c] # <<>> /\ cursor'[c] # NoCursor
      BY <2>1, <2>2, <2>15 DEF NoCursor
    <3>2. \A i \in DOMAIN got'[c] : got'[c][i].kind # "gap" /\ got'[c][i].seq <= cursor'[c]
      BY <1>6, <2>1, <2>2, <2>8, <2>9
    <3> QED
      BY <3>1, <3>2 DEF AtCursor
  <2>11. InSequence(c)'
    BY <1>1, <1>3, <1>4, <2>1, <2>8 DEF InSequence
  <2>12. \A g \in Events(rest) : g \in Frames /\ g.seq \in Int
    BY <1>4, HostFeedAssumption DEF Events, Frames
  <2>13. Onward(c)'
    <3> SUFFICES ASSUME NEW n \in 1..taken, Due(c, n)' PROVE (OnTheWay(c, n) \/ Lost(c, n))'
      BY <1>1 DEF Onward
    <3>1. f.seq < n \/ \E g \in Events(rest) : g.seq <= n
      BY <1>1, <2>1 DEF Due
    <3>2. Due(c, n)
      BY <2>1, <2>2, <3>1 DEF Due
    <3>3. OnTheWay(c, n) \/ Lost(c, n)
      BY <1>3, <3>2 DEF Onward
    <3>4. CASE OnTheWay(c, n)
      <4>1. PICK g \in Events(wire[c]) : g.kind = "snapshot" /\ g.seq = n
        BY <3>4 DEF OnTheWay
      <4>2. g # f
        <5> SUFFICES ASSUME g = f PROVE FALSE
          OBVIOUS
        <5>1. PICK h \in Events(rest) : h.seq <= n
          BY <2>2, <3>1, <4>1
        <5>2. Ahead(f, h) /\ h.seq \in Int /\ f.seq = n /\ f.kind = "snapshot"
          BY <2>1, <2>12, <4>1, <5>1
        <5> QED
          BY <2>2, <5>1, <5>2 DEF Ahead
      <4> QED
        BY <1>1, <2>1, <4>1, <4>2 DEF OnTheWay
    <3>5. CASE Lost(c, n)
      BY <1>1, <3>5 DEF Lost
    <3> QED
      BY <3>3, <3>4, <3>5
  <2>14. Behind(c)'
    <3> SUFFICES ASSUME NEW n \in got'[c][1].seq..f.seq
                 PROVE  (Has(c, n) \/ Excused(c, n))'
      BY <2>1 DEF Behind
    <3>0. n \in Int /\ n <= f.seq /\ n \in got'[c][1].seq..f.seq
      OBVIOUS
    <3>1. CASE n = f.seq
      <4>1. f \in Events(got'[c])
        BY <2>4
      <4> QED
        BY <2>2, <3>1, <4>1 DEF Has, Excused, Seen
    <3>2. CASE n # f.seq
      <4>1. got[c] # <<>> /\ got'[c][1] = got[c][1] /\ got[c][1].seq \in Int /\ 1 \in DOMAIN got[c]
        <5>1. CASE got[c] = <<>>
          <6>1. got'[c][1] = f
            BY <2>1, <2>15, <5>1
          <6> QED
            BY <2>2, <3>0, <3>2, <6>1
        <5>2. CASE got[c] # <<>>
          BY <2>1, <2>15, <2>9, <5>2
        <5> QED
          BY <5>1, <5>2
      <4>2. cursor[c] # NoCursor /\ cursor[c] \in Int
        BY <1>1, <1>3, <4>1 DEF AtCursor, NoCursor
      <4>3. CASE n <= cursor[c]
        <5>1. n \in got[c][1].seq..cursor[c]
          BY <3>0, <4>1, <4>2, <4>3
        <5>2. Has(c, n) \/ Excused(c, n)
          BY <1>3, <4>1, <5>1 DEF Behind
        <5> QED
          BY <1>1, <2>1, <2>4, <5>2 DEF Has, Excused, Seen
      <4>4. CASE ~(n <= cursor[c])
        <5>1. n \in 1..taken /\ Due(c, n)
          <6>1. cursor[c] < n /\ n <= taken
            BY <1>1, <2>2, <3>0, <4>2, <4>4
          <6>2. 1 <= n
            BY <1>1, <3>0, <4>2, <6>1 DEF NoCursor
          <6> QED
            BY <1>1, <3>0, <4>2, <6>1, <6>2 DEF Due
        <5>2. OnTheWay(c, n) \/ Lost(c, n)
          BY <1>3, <5>1 DEF Onward
        <5>3. ~OnTheWay(c, n)
          <6> SUFFICES ASSUME NEW g \in Events(wire[c]), g.kind = "snapshot", g.seq = n PROVE FALSE
            BY DEF OnTheWay
          <6>1. g \in Events(rest) /\ Ahead(f, g)
            BY <2>1, <3>2
          <6> QED
            BY <2>2, <3>0, <3>2, <6>1 DEF Ahead
        <5> QED
          BY <1>1, <5>2, <5>3 DEF Lost, Excused
      <4> QED
        BY <4>3, <4>4
    <3> QED
      BY <3>1, <3>2
  <2> QED
    BY <2>7, <2>10, <2>11, <2>13, <2>14 DEF Exact
<1> QED
  BY <1>5, <1>6


LEMMA ResumeStep == FeedInv /\ ResumeInv /\ [Next]_vars => ResumeInv'
<1> USE HostFeedAssumption
<1> SUFFICES ASSUME FeedInv, ResumeInv, [Next]_vars, starts' = 1
             PROVE  base' = 0 /\ \A c \in Clients : Exact(c)'
  BY DEF ResumeInv
<1>0. /\ cut \in Nat /\ taken \in Nat /\ starts \in Nat /\ starts # 0 /\ unsaved \subseteq 1..MaxTicks
      /\ past \in [Clients -> SUBSET (1..MaxTicks)] /\ told \in [Clients -> SUBSET Nat]
      /\ wire \in [Clients -> Seq(Frames)] /\ cursor \in [Clients -> NoCursor..MaxTicks]
      /\ got \in [Clients -> Seq(Frames)]
  BY DEF FeedInv, TypeOK
<1>1. ~Start
  BY <1>0 DEF Start
<1>2. starts = 1 /\ base' = base
  BY <1>1 DEF Next, Tick, StopInTick, Stop, Down, Purge, Connect, Receive, Lose, Cleanup, vars, gateway
<1>3. base = 0 /\ \A c \in Clients : Exact(c)
  BY <1>2 DEF ResumeInv
<1> SUFFICES ASSUME NEW c \in Clients PROVE Exact(c)'
  BY <1>2, <1>3
<1>4. ASSUME NEW discovered \in BOOLEAN, NEW saved \in BOOLEAN, Tick(discovered, saved) PROVE Exact(c)'
  <2>1. CASE c \in subs
    BY <1>2, <1>3, <1>4, <2>1, TickResume
  <2>2. CASE c \notin subs
    <3>1. UNCHANGED <<cut, past, cursor, told, got, subs>> /\ unsaved \subseteq unsaved'
      BY <1>4 DEF Tick, Collect, server, browser
    <3> QED
      BY <1>0, <1>3, <2>2, <3>1, ClientQuiet
  <2> QED
    BY <2>1, <2>2
<1>5. ASSUME Stop \/ \E discovered \in BOOLEAN : StopInTick(discovered) PROVE Exact(c)'
  <2>1. UNCHANGED <<cut, past, cursor, told, got, unsaved>> /\ subs' = {}
    BY <1>5 DEF Stop, StopInTick, Down, browser
  <2> QED
    BY <1>0, <1>3, <2>1, ClientQuiet
<1>6. ASSUME NEW k \in 1..MaxTicks, Purge(k) PROVE Exact(c)'
  <2>1. UNCHANGED <<past, cursor, told, got, unsaved, subs, wire, taken>> /\ cut' \in Nat /\ cut <= cut'
    BY <1>0, <1>6 DEF Purge, browser, server, gateway
  <2> QED
    BY <1>0, <1>3, <2>1, ClientQuiet
<1>7. ASSUME NEW d \in Clients, Connect(d) PROVE Exact(c)'
  <2>1. CASE c = d
    BY <1>3, <1>7, <2>1, ConnectResume
  <2>2. CASE c # d
    <3>1. /\ UNCHANGED <<cut, taken, cursor, told, got, unsaved>> /\ subs' = subs \cup {d}
          /\ wire'[c] = wire[c]
      BY <1>0, <1>7, <2>2 DEF Connect, gateway, tables, browser
    <3>2. past[c] \subseteq past'[c]
      BY <1>0, <1>7, <2>2 DEF Connect
    <3>3. c \in subs' => c \in subs /\ wire'[c] = wire[c] /\ taken' = taken
      BY <2>2, <3>1
    <3>4. /\ got'[c] = got[c] /\ cursor'[c] = cursor[c] /\ told[c] \subseteq told'[c]
          /\ unsaved \subseteq unsaved' /\ cut' \in Nat /\ cut <= cut' /\ past[c] \subseteq past'[c]
      BY <1>0, <3>1, <3>2
    <3>5. Exact(c)
      BY <1>3
    <3> QED
      BY <1>0, <3>3, <3>4, <3>5, ClientQuiet
  <2> QED
    BY <2>1, <2>2
<1>8. ASSUME NEW d \in Clients, Receive(d) PROVE Exact(c)'
  <2>1. CASE c = d
    BY <1>3, <1>8, <2>1, ReceiveResume
  <2>2. CASE c # d
    <3>1. /\ UNCHANGED <<cut, taken, past, unsaved, subs>>
          /\ wire'[c] = wire[c] /\ told'[c] = told[c] /\ cursor'[c] = cursor[c] /\ got'[c] = got[c]
      BY <1>0, <1>8, <2>2 DEF Receive, gateway, tables, server
    <3>3. c \in subs' => c \in subs /\ wire'[c] = wire[c] /\ taken' = taken
      BY <2>2, <3>1
    <3>4. /\ got'[c] = got[c] /\ cursor'[c] = cursor[c] /\ told[c] \subseteq told'[c]
          /\ unsaved \subseteq unsaved' /\ cut' \in Nat /\ cut <= cut' /\ past[c] \subseteq past'[c]
      BY <1>0, <3>1
    <3>5. Exact(c)
      BY <1>3
    <3> QED
      BY <1>0, <3>3, <3>4, <3>5, ClientQuiet
  <2> QED
    BY <2>1, <2>2
<1>9. ASSUME (\E d \in Clients : Lose(d)) \/ Cleanup \/ UNCHANGED vars PROVE Exact(c)'
  <2>1. /\ UNCHANGED <<cut, taken, past, unsaved, cursor, told, got>> /\ subs' \subseteq subs
        /\ c \in subs' => wire'[c] = wire[c]
    BY <1>0, <1>9 DEF Lose, Cleanup, vars, gateway, tables, browser, server
  <2> QED
    BY <1>0, <1>3, <2>1, ClientQuiet
<1> QED
  BY <1>1, <1>4, <1>5, <1>6, <1>7, <1>8, <1>9 DEF Next

(* Resuming by Last-Event-ID (systemStream.ts, routes.ts): over any number *)
(* of lost connections a client receives the snapshots in order, none      *)
(* twice, and every one between its first frame and its last, unless the   *)
(* snapshot was never stored, was purged or named by a gap frame, lay      *)
(* beyond a full batch, or its process frame used up the id.               *)
THEOREM FeedResumeIsExact == Spec => []ResumeIsExact
<1>1. FeedInv /\ ResumeInv => ResumeIsExact
  <2> SUFFICES ASSUME FeedInv, ResumeInv, starts = 1, NEW c \in Clients
               PROVE  /\ \A i, j \in 1..Len(got[c]) :
                            (i < j /\ got[c][i].kind = "snapshot" /\ got[c][j].kind = "snapshot")
                                => got[c][i].seq < got[c][j].seq
                      /\ \A i \in 1..Len(got[c]) : \A n \in got[c][1].seq..got[c][i].seq :
                            Has(c, n) \/ Excused(c, n)
    BY DEF ResumeIsExact
  <2>1. /\ got[c] \in Seq(Frames) /\ DOMAIN got[c] = 1..Len(got[c])
        /\ cursor[c] \in NoCursor..MaxTicks
    BY DEF FeedInv, TypeOK
  <2>2. InOrder(got[c]) /\ AtCursor(c) /\ Behind(c)
    BY DEF ResumeInv, Exact
  <2>3. ASSUME NEW i \in 1..Len(got[c]), NEW j \in 1..Len(got[c]), i < j,
               got[c][i].kind = "snapshot", got[c][j].kind = "snapshot"
        PROVE  got[c][i].seq < got[c][j].seq
    BY <2>1, <2>2, <2>3 DEF InOrder, Ahead
  <2>4. ASSUME NEW i \in 1..Len(got[c]), NEW n \in got[c][1].seq..got[c][i].seq
        PROVE  Has(c, n) \/ Excused(c, n)
    <3>1. got[c] # <<>> /\ got[c][i].seq <= cursor[c] /\ got[c][i].kind # "gap" /\ got[c][i] \in Frames
      BY <2>1, <2>2 DEF AtCursor
    <3>2. got[c][1].kind # "gap" /\ got[c][1] \in Frames
      BY <2>1, <2>2, <3>1 DEF AtCursor
    <3>3. got[c][i].seq \in Int /\ got[c][1].seq \in Int /\ cursor[c] \in Int
      BY <2>1, <3>1, <3>2, HostFeedAssumption DEF Frames, NoCursor
    <3>4. n \in got[c][1].seq..cursor[c]
      BY <3>1, <3>3
    <3> QED
      BY <2>2, <3>1, <3>4 DEF Behind
  <2> QED
    BY <2>3, <2>4
<1>2. FeedInv /\ ResumeInv /\ [Next]_vars => FeedInv' /\ ResumeInv'
  BY FeedStep, ResumeStep
<1>3. Init => FeedInv /\ ResumeInv
  BY InitFeed, InitResume
<1> QED
  BY <1>1, <1>2, <1>3, PTL DEF Spec

=============================================================================
