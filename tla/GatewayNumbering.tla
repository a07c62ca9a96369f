------------------------- MODULE GatewayNumbering -------------------------
(***************************************************************************)
(* The numbers of a history are 0, 1, 2, ... without a gap, as long as no  *)
(* write fails: the inductive half is what the counter of a session has to *)
(* do with the size of its history, while the session is open and after.   *)
(*                                                                         *)
(* The second half of the module proves what the streams show of those     *)
(* numbered histories: nothing a replay would not, and while live all of it.*)
(***************************************************************************)
EXTENDS GatewaySafety, FiniteSetTheorems

Dense(h) == {e.seq : e \in h} = 0 .. Cardinality(h) - 1

(* The counter of an open session is the size of its history.  One that is *)
(* no longer open has a counter that is not above it, so that a line read  *)
(* late is stored next to the last entry or, its number being taken,       *)
(* dropped.                                                                *)
Numbered(s) ==
  /\ IsFiniteSet(log[s])
  /\ row[s] = "NONE" => nextSeq[s] = 0
  /\ faults = 0 => Dense(log[s])
  /\ faults = 0 /\ RowExists(s) =>
       /\ nextSeq[s] <= Cardinality(log[s])
       /\ s \in open => nextSeq[s] = Cardinality(log[s])

NumberedInv == \A s \in Sessions : Numbered(s)

-----------------------------------------------------------------------------
(* Sets of entries. *)

LEMMA DenseEmpty == IsFiniteSet({}) /\ Cardinality({}) = 0 /\ Dense({})
BY FS_EmptySet DEF Dense

(* The next entry has the size of the history as its number. *)
LEMMA DenseGrow ==
  ASSUME NEW h, IsFiniteSet(h), Dense(h), NEW x, x.seq = Cardinality(h)
  PROVE  IsFiniteSet(h \cup {x}) /\ Cardinality(h \cup {x}) = Cardinality(h) + 1 /\ Dense(h \cup {x})
<1> DEFINE n == Cardinality(h)
<1>1. n \in Nat
  BY FS_CardinalityType
<1>2. {e.seq : e \in h} = 0 .. n - 1
  BY DEF Dense
<1>3. x \notin h
  <2>1. n \notin 0 .. n - 1
    BY <1>1
  <2>2. x \in h => x.seq \in {e.seq : e \in h}
    OBVIOUS
  <2> QED
    BY <1>2, <2>1, <2>2
<1>4. IsFiniteSet(h \cup {x}) /\ Cardinality(h \cup {x}) = n + 1
  BY <1>3, FS_AddElement
<1>5. {e.seq : e \in h \cup {x}} = (0 .. n - 1) \cup {n}
  <2>1. {e.seq : e \in h \cup {x}} = {e.seq : e \in h} \cup {x.seq}
    OBVIOUS
  <2> QED
    BY <1>2, <2>1
<1>6. (0 .. n - 1) \cup {n} = 0 .. (n + 1) - 1
  BY <1>1
<1> QED
  BY <1>4, <1>5, <1>6 DEF Dense

(* A free number that is not above the size of a history is its size. *)
LEMMA FreshIsNext ==
  ASSUME NEW h, IsFiniteSet(h), Dense(h), NEW n \in Nat, n <= Cardinality(h), \A e \in h : e.seq # n
  PROVE  n = Cardinality(h)
<1>1. Cardinality(h) \in Nat
  BY FS_CardinalityType
<1>2. n \notin {e.seq : e \in h}
  OBVIOUS
<1>3. n \notin 0 .. Cardinality(h) - 1
  BY <1>2 DEF Dense
<1> QED
  BY <1>1, <1>3

LEMMA FiniteGrow ==
  ASSUME NEW h, IsFiniteSet(h), NEW x, NEW y, NEW stored \in SUBSET {x, y}
  PROVE  IsFiniteSet(h \cup stored)
<1>1. IsFiniteSet(h \cup {x})
  BY FS_AddElement
<1>2. IsFiniteSet((h \cup {x}) \cup {y})
  BY <1>1, FS_AddElement
<1>3. h \cup stored \in SUBSET ((h \cup {x}) \cup {y})
  OBVIOUS
<1> QED
  BY <1>2, <1>3, FS_Subset

-----------------------------------------------------------------------------
(* Steps. *)

LEMMA NumberedSame ==
  ASSUME NEW s \in Sessions, Numbered(s), row'[s] = row[s], log'[s] = log[s],
         nextSeq'[s] = nextSeq[s], s \in open' => s \in open, faults' = 0 => faults = 0
  PROVE  Numbered(s)'
BY DEF Numbered, RowExists

(* A session without a row, or whose row was deleted, keeps no events. *)
LEMMA NumberedGone ==
  ASSUME NEW s \in Sessions, log'[s] = {}, row'[s] = "DELETED" PROVE Numbered(s)'
BY DenseEmpty DEF Numbered, RowExists

LEMMA OpenAccepts ==
  ASSUME TypeInv, RecordInv, NEW s \in Sessions, s \in open, RowExists(s), NEW x,
         x.seq \in Nat, x.seq >= nextSeq[s]
  PROVE  Accepts(s, x)
<1>1. \A e \in log[s] : e.seq < nextSeq[s] /\ e.seq \in Nat
  BY DEF RecordInv, RecordOf, Owned, TypeInv, Histories, Entry
<1>2. nextSeq[s] \in Nat
  BY DEF TypeInv, TypeOK
<1> QED
  BY <1>1, <1>2 DEF Accepts

(* What emit() of one event under the session's number does. *)
LEMMA EmitOne ==
  ASSUME TypeInv, RecordInv, NumberedInv, NEW s \in Sessions, NEW x, x.seq = nextSeq[s], Emit(s, {x})
  PROVE  /\ IsFiniteSet(log'[s])
         /\ \A t \in Sessions : t # s => log'[t] = log[t]
         /\ ~RowExists(s) => log'[s] = log[s]
         /\ faults' = 0 => faults = 0 /\ Dense(log'[s])
         /\ faults' = 0 /\ RowExists(s) =>
              /\ nextSeq[s] <= Cardinality(log'[s])
              /\ s \in open => Cardinality(log'[s]) = nextSeq[s] + 1
<1>1. PICK stored \in SUBSET {e \in {x} : Accepts(s, e)} :
        /\ \A t \in Sessions : log'[t] = IF t = s THEN log[s] \cup stored ELSE log[t]
        /\ faults' = 0 => faults = 0 /\ stored = {e \in {x} : Accepts(s, e)}
  BY EmitEffect
<1>2. Numbered(s) /\ nextSeq[s] \in Nat
  BY DEF NumberedInv, TypeInv, TypeOK
<1>3. log'[s] = log[s] \cup stored /\ \A t \in Sessions : t # s => log'[t] = log[t]
  BY <1>1
<1>4. IsFiniteSet(log'[s])
  <2>1. stored \in SUBSET {x, x}
    BY <1>1
  <2> QED
    BY <1>2, <1>3, <2>1, FiniteGrow DEF Numbered
<1>5. ~RowExists(s) => log'[s] = log[s]
  BY <1>3 DEF Accepts
<1>6. ASSUME faults' = 0, RowExists(s)
      PROVE  /\ Dense(log'[s]) /\ nextSeq[s] <= Cardinality(log'[s])
             /\ s \in open => Cardinality(log'[s]) = nextSeq[s] + 1
  <2>1. faults = 0 /\ Dense(log[s]) /\ nextSeq[s] <= Cardinality(log[s]) /\ IsFiniteSet(log[s])
    BY <1>1, <1>2, <1>6 DEF Numbered
  <2>2. CASE Accepts(s, x)
    <3>1. log'[s] = log[s] \cup {x}
      BY <1>1, <1>3, <1>6, <2>2
    <3>2. nextSeq[s] = Cardinality(log[s])
      BY <1>2, <2>1, <2>2, FreshIsNext DEF Accepts
    <3>3. Dense(log'[s]) /\ Cardinality(log'[s]) = nextSeq[s] + 1
      BY <2>1, <3>1, <3>2, DenseGrow
    <3> QED
      BY <1>2, <3>3
  <2>3. CASE ~Accepts(s, x)
    <3>1. log'[s] = log[s]
      BY <1>3, <2>3
    <3>2. s \notin open
      BY <1>2, <1>6, <2>3, OpenAccepts
    <3> QED
      BY <2>1, <3>1, <3>2
  <2> QED
    BY <2>2, <2>3
<1>7. faults' = 0 => faults = 0 /\ Dense(log'[s])
  BY <1>1, <1>2, <1>5, <1>6 DEF Numbered
<1> QED
  BY <1>3, <1>4, <1>5, <1>6, <1>7

(* The first two events: a history of two, whether the second announces    *)
(* the start or the refusal.                                               *)
LEMMA FirstTwo ==
  ASSUME NEW second, second.seq = 1
  PROVE  LET h == {Created} \cup {second} IN IsFiniteSet(h) /\ Cardinality(h) = 2 /\ Dense(h)
<1>1. Created.seq = 0
  BY EventFields DEF Created
<1>2. IsFiniteSet({Created}) /\ Cardinality({Created}) = 1 /\ Dense({Created})
  <2>1. {} \cup {Created} = {Created}
    OBVIOUS
  <2>2. Cardinality({}) + 1 = 1
    BY DenseEmpty
  <2> QED
    BY <1>1, <2>1, <2>2, DenseEmpty, DenseGrow
<1> QED
  BY <1>2, DenseGrow

LEMMA AdmitNumbered ==
  ASSUME TypeInv, RecordInv, NumberedInv, NEW s \in Sessions, Admit(s) \/ RefuseStart(s)
  PROVE  NumberedInv'
<1>1. row[s] = "NONE" /\ log[s] = {} /\ nextSeq[s] = 0
      /\ row \in [Sessions -> RowStatuses] /\ nextSeq \in [Sessions -> Nat] /\ s \notin open
  BY DEF Admit, RefuseStart, RecordInv, RecordOf, Owned, NumberedInv, Numbered, TypeInv, TypeOK
<1>2. /\ \E second : second.seq = 1 /\ \E kept \in SUBSET {second} :
           Written(kept, {second}) /\ Persist(Only(s, {Created} \cup kept))
      /\ \/ row' = [row EXCEPT ![s] = "CREATED"] /\ nextSeq' = [nextSeq EXCEPT ![s] = 2]
            /\ open' = open \cup {s}
         \/ row' = [row EXCEPT ![s] = "FAILED"] /\ nextSeq' = nextSeq /\ open' = open
  <2>1. Event(1, "execution.started").seq = 1 /\ Event(1, "execution.failed").seq = 1
    BY EventFields
  <2>2. CASE Admit(s)
    BY <2>1, <2>2 DEF Admit, Register
  <2>3. CASE RefuseStart(s)
    BY <2>1, <2>3 DEF RefuseStart, memory
  <2> QED
    BY <2>2, <2>3
<1>3. PICK second : second.seq = 1 /\ \E kept \in SUBSET {second} :
        Written(kept, {second}) /\ Persist(Only(s, {Created} \cup kept))
  BY <1>2
<1>4. PICK kept \in SUBSET {second} :
        Written(kept, {second}) /\ Persist(Only(s, {Created} \cup kept))
  BY <1>3
<1>5. \A t \in Sessions : log'[t] = log[t] \cup Only(s, {Created} \cup kept)[t]
  BY <1>4, PersistEffect
<1>6. faults' = 0 => faults = 0 /\ kept = {second}
  BY <1>4, WrittenEffect
<1>7. ASSUME NEW t \in Sessions, t # s PROVE Numbered(t)'
  <2>1. Numbered(t) /\ log'[t] = log[t]
    BY <1>5, <1>7 DEF NumberedInv, Only
  <2> QED
    BY <1>1, <1>2, <1>6, <1>7, <2>1, NumberedSame
<1>8. Numbered(s)'
  <2>1. log'[s] = {Created} \cup kept
    BY <1>1, <1>5 DEF Only
  <2>2. IsFiniteSet(log'[s])
    <3>1. kept \in SUBSET {second, second}
      BY <1>4
    <3>2. IsFiniteSet({Created})
      BY FS_Singleton
    <3>3. IsFiniteSet({Created} \cup kept)
      BY <3>1, <3>2, FiniteGrow
    <3> QED
      BY <2>1, <3>3
  <2>3. faults' = 0 => Dense(log'[s]) /\ Cardinality(log'[s]) = 2
    BY <1>6, <1>3, <2>1, FirstTwo
  <2>4. row'[s] # "NONE" /\ nextSeq'[s] <= 2 /\ (s \in open' => nextSeq'[s] = 2)
    BY <1>1, <1>2
  <2> QED
    BY <2>2, <2>3, <2>4 DEF Numbered
<1> QED
  BY <1>7, <1>8 DEF NumberedInv

(* Steps that emit one event and advance the counter past it, and endings, *)
(* which also close the session.                                           *)
LEMMA OneEventNumbered ==
  ASSUME TypeInv, RecordInv, NumberedInv, NEW s \in Sessions, NEW x, x.seq = nextSeq[s], Emit(s, {x}),
         s \in open, open' \in {open, open \ {s}},
         \A t \in Sessions : t # s => row'[t] = row[t] /\ nextSeq'[t] = nextSeq[t],
         row'[s] # "NONE", RowExists(s)' <=> RowExists(s),
         faults' = 0 /\ RowExists(s) => nextSeq'[s] = nextSeq[s] + 1
  PROVE  NumberedInv'
<1>1. nextSeq[s] \in Nat
  BY DEF TypeInv, TypeOK
<1>2. Numbered(s)'
  <2>1. /\ IsFiniteSet(log'[s])
        /\ faults' = 0 => Dense(log'[s])
        /\ faults' = 0 /\ RowExists(s) => Cardinality(log'[s]) = nextSeq[s] + 1
    BY EmitOne
  <2> QED
    BY <1>1, <2>1 DEF Numbered
<1>3. ASSUME NEW t \in Sessions, t # s PROVE Numbered(t)'
  <2>1. Numbered(t) /\ log'[t] = log[t] /\ (faults' = 0 => faults = 0)
    BY <1>3, EmitOne DEF NumberedInv
  <2> QED
    BY <1>3, <2>1, NumberedSame
<1> QED
  BY <1>2, <1>3 DEF NumberedInv

LEMMA EndingNumbered ==
  ASSUME TypeInv, RecordInv, NumberedInv, NEW s \in Sessions, SpawnError(s) \/ Close(s)
  PROVE  NumberedInv'
<1>1. row \in [Sessions -> RowStatuses] /\ nextSeq \in [Sessions -> Nat]
  BY DEF TypeInv, TypeOK
<1>2. s \in open /\ row[s] \in {"CREATED", "DELETED"}
  BY DEF SpawnError, Close, RecordInv, RecordOf, Owned
<1>3. CASE SpawnError(s)
  <2> DEFINE final == Event(nextSeq[s], "execution.failed")
  <2>1. /\ Emit(s, {final}) /\ open' = open \ {s}
        /\ row' = IF RowExists(s) THEN [row EXCEPT ![s] = "FAILED"] ELSE row
        /\ nextSeq' = [nextSeq EXCEPT ![s] = @ + 1]
    BY <1>3 DEF SpawnError, FinalizeFailed
  <2>2. final.seq = nextSeq[s]
    BY EventFields
  <2>3. row'[s] # "NONE" /\ (RowExists(s)' <=> RowExists(s))
    BY <1>1, <1>2, <2>1 DEF RowExists
  <2> HIDE DEF final
  <2> QED
    BY <1>1, <1>2, <2>1, <2>2, <2>3, OneEventNumbered
<1>4. CASE Close(s)
  <2> DEFINE final    == Event(nextSeq[s], FinalType(Verdict(s)))
             accepted == {e \in {final} : Accepts(s, e)}
  <2>1. PICK stored \in SUBSET accepted :
          /\ Written(stored, accepted)
          /\ Persist(Only(s, stored))
          /\ row' = IF stored = {} THEN row ELSE [row EXCEPT ![s] = Verdict(s)]
          /\ nextSeq' = [nextSeq EXCEPT ![s] = @ + IF stored = {} THEN 2 ELSE 1]
    BY <1>4 DEF Close, Finalize
  <2>2. Emit(s, {final})
    BY <2>1 DEF Emit
  <2>3. final.seq = nextSeq[s] /\ open' = open \ {s}
    BY <1>4, EventFields DEF Close, Finalize
  <2>4. Verdict(s) \notin {"NONE", "DELETED"}
    BY DEF Verdict, DecideStatus
  <2>5. stored # {} => RowExists(s)
    BY <2>1 DEF Accepts
  <2>6. row'[s] # "NONE" /\ (RowExists(s)' <=> RowExists(s))
    BY <1>1, <1>2, <2>1, <2>4, <2>5 DEF RowExists
  <2>7. faults' = 0 /\ RowExists(s) => stored # {}
    <3>1. faults' = 0 => stored = accepted
      BY <2>1, WrittenEffect
    <3>2. RowExists(s) => Accepts(s, final)
      BY <1>1, <1>2, <2>3, OpenAccepts
    <3> QED
      BY <3>1, <3>2
  <2> HIDE DEF final, accepted
  <2> QED
    BY <1>1, <1>2, <2>1, <2>2, <2>3, <2>6, <2>7, OneEventNumbered
<1> QED
  BY <1>3, <1>4

LEMMA SampleNumbered ==
  ASSUME TypeInv, RecordInv, NumberedInv, NEW s \in Sessions, Sample(s) PROVE NumberedInv'
<1> DEFINE x == Event(nextSeq[s], "process.snapshot")
<1>1. /\ Emit(s, {x}) /\ row' = row /\ open' = open /\ s \in open
      /\ nextSeq' = [nextSeq EXCEPT ![s] = @ + 1]
  BY DEF Sample, RecordInv
<1>2. x.seq = nextSeq[s] /\ nextSeq \in [Sessions -> Nat]
  BY EventFields DEF TypeInv, TypeOK
<1>3. row'[s] # "NONE" /\ (RowExists(s)' <=> RowExists(s))
  BY <1>1 DEF RowExists, RecordInv, RecordOf, Owned
<1> HIDE DEF x
<1> QED
  BY <1>1, <1>2, <1>3, OneEventNumbered

(* A line: one event or, when a telemetry loop starts, two; one that is    *)
(* read late does not advance the counter.                                 *)
LEMMA DeliverNumbered ==
  ASSUME TypeInv, RecordInv, NumberedInv, NEW s \in Sessions, DeliverLine(s) PROVE NumberedInv'
<1> DEFINE x == Event(nextSeq[s], Head(pipe[s]).type)
           y == Event(nextSeq[s] + 1, "process.snapshot")
<1>1. /\ Emit(s, {x} \cup (IF StartsLoop(s) THEN {y} ELSE {})) /\ row' = row /\ open' = open
      /\ nextSeq' = [nextSeq EXCEPT ![s] = @ + NumbersUsed(s)]
  BY DEF DeliverLine
<1>2. x.seq = nextSeq[s] /\ y.seq = nextSeq[s] + 1 /\ nextSeq \in [Sessions -> Nat]
  BY EventFields DEF TypeInv, TypeOK
<1>3. Numbered(s) /\ (s \in registry => s \in open)
  BY DEF NumberedInv, RecordInv
<1>4. RowExists(s)' <=> RowExists(s)
  BY <1>1 DEF RowExists
<1>5. row[s] = "NONE" => s \notin open
  BY DEF RecordInv, RecordOf, Owned
<1> HIDE DEF x, y
<1>6. CASE ~StartsLoop(s)
  <2>1. Emit(s, {x})
    <3>1. {x} \cup (IF StartsLoop(s) THEN {y} ELSE {}) = {x}
      BY <1>6
    <3> QED
      BY <1>1, <3>1
  <2>2. CASE s \in registry
    <3>1. NumbersUsed(s) = 1
      BY <1>6, <2>2 DEF NumbersUsed
    <3> QED
      BY <1>1, <1>2, <1>3, <1>4, <1>5, <2>1, <2>2, <3>1, OneEventNumbered
  <2>3. CASE s \notin registry
    <3>1. nextSeq' = nextSeq /\ s \notin open
      <4>1. pipe[s] # <<>>
        BY DEF DeliverLine
      <4> QED
        BY <1>1, <1>2, <2>3, <4>1 DEF NumbersUsed, RecordInv, RecordOf, Owned
    <3>2. Numbered(s)'
      <4>1. /\ IsFiniteSet(log'[s])
            /\ faults' = 0 => faults = 0 /\ Dense(log'[s])
            /\ faults' = 0 /\ RowExists(s) => nextSeq[s] <= Cardinality(log'[s])
        BY <1>2, <2>1, EmitOne
      <4> QED
        BY <1>1, <1>3, <1>4, <3>1, <4>1 DEF Numbered
    <3>3. ASSUME NEW t \in Sessions, t # s PROVE Numbered(t)'
      <4>1. Numbered(t) /\ log'[t] = log[t] /\ (faults' = 0 => faults = 0)
        BY <1>2, <2>1, <3>3, EmitOne DEF NumberedInv
      <4> QED
        BY <1>1, <3>1, <4>1, NumberedSame
    <3> QED
      BY <3>2, <3>3 DEF NumberedInv
  <2> QED
    BY <2>2, <2>3
<1>7. CASE StartsLoop(s)
  <2>1. s \in registry /\ s \in open /\ nextSeq'[s] = nextSeq[s] + 2
    BY <1>1, <1>2, <1>3, <1>7 DEF StartsLoop, NumbersUsed
  <2>2. PICK stored \in SUBSET {e \in {x, y} : Accepts(s, e)} :
          /\ \A t \in Sessions : log'[t] = IF t = s THEN log[s] \cup stored ELSE log[t]
          /\ faults' = 0 => faults = 0 /\ stored = {e \in {x, y} : Accepts(s, e)}
    <3>1. {x} \cup (IF StartsLoop(s) THEN {y} ELSE {}) = {x, y}
      BY <1>7
    <3> QED
      BY <1>1, <3>1, EmitEffect
  <2>3. log'[s] = log[s] \cup stored /\ stored \in SUBSET {x, y}
    BY <2>2
  <2>4. IsFiniteSet(log'[s])
    <3>1. IsFiniteSet(log[s])
      BY <1>3 DEF Numbered
    <3>2. IsFiniteSet(log[s] \cup stored)
      BY <2>3, <3>1, FiniteGrow
    <3> QED
      BY <2>3, <3>2
  <2>5. CASE ~RowExists(s)
    <3>1. log'[s] = log[s]
      BY <2>2, <2>3, <2>5 DEF Accepts
    <3> QED
      <4>1. Numbered(s)'
        BY <1>1, <1>3, <1>4, <1>5, <2>1, <2>2, <2>5, <3>1 DEF Numbered
      <4>2. ASSUME NEW t \in Sessions, t # s PROVE Numbered(t)'
        BY <1>1, <1>2, <2>2, <4>2, NumberedSame DEF NumberedInv
      <4> QED
        BY <4>1, <4>2 DEF NumberedInv
  <2>6. CASE RowExists(s)
    <3>1. Accepts(s, x) /\ Accepts(s, y)
      BY <1>2, <2>1, <2>6, OpenAccepts
    <3>2. faults' = 0 => Dense(log'[s]) /\ Cardinality(log'[s]) = nextSeq[s] + 2
      <4> SUFFICES ASSUME faults' = 0
                   PROVE  Dense(log'[s]) /\ Cardinality(log'[s]) = nextSeq[s] + 2
        OBVIOUS
      <4>1. /\ IsFiniteSet(log[s]) /\ Dense(log[s]) /\ Cardinality(log[s]) = nextSeq[s]
        BY <1>3, <2>1, <2>2, <2>6 DEF Numbered
      <4>2. log'[s] = (log[s] \cup {x}) \cup {y}
        BY <2>2, <2>3, <3>1
      <4>3. /\ IsFiniteSet(log[s] \cup {x}) /\ Dense(log[s] \cup {x})
            /\ Cardinality(log[s] \cup {x}) = nextSeq[s] + 1
        BY <1>2, <4>1, DenseGrow
      <4>4. /\ Dense((log[s] \cup {x}) \cup {y})
            /\ Cardinality((log[s] \cup {x}) \cup {y}) = (nextSeq[s] + 1) + 1
        BY <1>2, <4>3, DenseGrow
      <4> QED
        BY <1>2, <4>2, <4>4
    <3>3. Numbered(s)'
      BY <1>1, <1>2, <1>4, <1>5, <2>1, <2>4, <3>2 DEF Numbered
    <3>4. ASSUME NEW t \in Sessions, t # s PROVE Numbered(t)'
      BY <1>1, <1>2, <2>2, <3>4, NumberedSame DEF NumberedInv
    <3> QED
      BY <3>3, <3>4 DEF NumberedInv
  <2> QED
    BY <2>5, <2>6
<1> QED
  BY <1>6, <1>7

(* Steps that store nothing and open no session. *)
LEMMA QuietNumbered ==
  ASSUME NumberedInv, UNCHANGED <<row, log, nextSeq, faults>>, open' \subseteq open
  PROVE  NumberedInv'
BY NumberedSame DEF NumberedInv

LEMMA DeleteNumbered ==
  ASSUME TypeInv, NumberedInv, NEW s \in Sessions, Delete(s) PROVE NumberedInv'
<1>1. /\ row' = [row EXCEPT ![s] = "DELETED"] /\ log' = [log EXCEPT ![s] = {}]
      /\ UNCHANGED <<nextSeq, open, faults>>
  BY DEF Delete, memory
<1>2. row \in [Sessions -> RowStatuses] /\ log \in [Sessions -> SUBSET Entry]
  BY DEF TypeInv, TypeOK
<1>3. ASSUME NEW t \in Sessions PROVE Numbered(t)'
  <2>1. CASE t = s
    BY <1>1, <1>2, <2>1, NumberedGone
  <2>2. CASE t # s
    BY <1>1, <1>2, <2>2, NumberedSame DEF NumberedInv
  <2> QED
    BY <2>1, <2>2
<1> QED
  BY <1>3 DEF NumberedInv

(* The number of a recovery is the size of the history. *)
LEMMA RecoveryNumber ==
  ASSUME TypeInv, NEW s \in Sessions, RowExists(s), IsFiniteSet(log[s]), Dense(log[s])
  PROVE  Recovery(s).seq = Cardinality(log[s])
<1>1. Recovery(s).seq = NextNumber(s)
  BY EventFields DEF Recovery
<1>2. CASE log[s] = {}
  BY <1>1, <1>2, DenseEmpty DEF NextNumber
<1>3. CASE log[s] # {}
  <2>1. log[s] \in Histories /\ \A e \in log[s] : e.seq \in Nat
    BY DEF TypeInv, Histories, Entry
  <2>2. PICK e \in log[s] : (\A f \in log[s] : f.seq <= e.seq) /\ NextNumber(s) = e.seq + 1
    BY <1>3, <2>1, LastEntryExists DEF NextNumber
  <2>3. e.seq \in 0 .. Cardinality(log[s]) - 1
    BY DEF Dense
  <2>4. Cardinality(log[s]) \in Nat
    BY FS_CardinalityType
  <2>5. Cardinality(log[s]) - 1 \in {f.seq : f \in log[s]}
    BY <2>3, <2>4 DEF Dense
  <2>6. Cardinality(log[s]) - 1 <= e.seq
    BY <2>2, <2>5
  <2> QED
    BY <1>1, <2>1, <2>2, <2>3, <2>4, <2>6
<1> QED
  BY <1>2, <1>3

(* An abandoned execution gets one more event, or none if the write fails. *)
LEMMA AbandonedNumbered ==
  ASSUME NEW s \in Sessions, Numbered(s), NEW final, NEW stored \in SUBSET {final},
         log'[s] = log[s] \cup stored, row'[s] \notin {"NONE", "DELETED"}, s \notin open',
         nextSeq[s] \in Nat, nextSeq'[s] \in {nextSeq[s], nextSeq[s] + 1},
         faults' = 0 => faults = 0 /\ RowExists(s) /\ stored = {final} /\ final.seq = Cardinality(log[s])
  PROVE  Numbered(s)'
<1>1. IsFiniteSet(log[s])
  BY DEF Numbered
<1>2. IsFiniteSet(log'[s])
  <2>1. stored \in SUBSET {final, final}
    OBVIOUS
  <2>2. IsFiniteSet(log[s] \cup stored)
    BY <1>1, <2>1, FiniteGrow
  <2> QED
    BY <2>2
<1>3. faults' = 0 => Dense(log'[s]) /\ nextSeq'[s] <= Cardinality(log'[s])
  <2> SUFFICES ASSUME faults' = 0 PROVE Dense(log'[s]) /\ nextSeq'[s] <= Cardinality(log'[s])
    OBVIOUS
  <2>1. Dense(log[s]) /\ nextSeq[s] <= Cardinality(log[s])
    BY DEF Numbered
  <2>2. Dense(log[s] \cup {final}) /\ Cardinality(log[s] \cup {final}) = Cardinality(log[s]) + 1
    BY <1>1, <2>1, DenseGrow
  <2>3. Cardinality(log[s]) \in Nat
    BY <1>1, FS_CardinalityType
  <2>4. log'[s] = log[s] \cup {final}
    OBVIOUS
  <2>5. Cardinality(log'[s]) = Cardinality(log[s]) + 1 /\ Dense(log'[s])
    BY <2>2, <2>4
  <2>6. nextSeq'[s] <= Cardinality(log[s]) + 1
    BY <2>1, <2>3
  <2> QED
    BY <2>5, <2>6
<1> QED
  BY <1>2, <1>3 DEF Numbered

LEMMA BootNumbered ==
  ASSUME TypeInv, RecordInv, NumberedInv, Boot PROVE NumberedInv'
<1> DEFINE accepted == {s \in Sessions : Stale(s) /\ Accepts(s, Recovery(s))}
<1>1. PICK kept \in SUBSET accepted :
        /\ Written(kept, accepted)
        /\ Persist([s \in Sessions |-> IF s \in kept THEN {Recovery(s)} ELSE {}])
        /\ row' = [s \in Sessions |-> IF s \in kept THEN "FAILED" ELSE row[s]]
  BY DEF Boot
<1>2. faults' = 0 => faults = 0
  BY <1>1, WrittenEffect
<1>3. nextSeq' = nextSeq /\ open' = {} /\ open = {}
  BY DEF Boot, memory, RecordInv
<1>4. ASSUME NEW t \in Sessions PROVE Numbered(t)'
  <2>1. Numbered(t) /\ nextSeq[t] \in Nat
    BY DEF NumberedInv, TypeInv, TypeOK
  <2>2. log'[t] = log[t] \cup (IF t \in kept THEN {Recovery(t)} ELSE {})
    BY <1>1 DEF Persist
  <2>3. CASE t \notin kept
    <3>1. row'[t] = row[t] /\ log'[t] = log[t]
      BY <1>1, <2>2, <2>3
    <3> QED
      BY <1>2, <1>3, <2>1, <3>1, NumberedSame
  <2>4. CASE t \in kept
    <3>1. RowExists(t) /\ row'[t] = "FAILED" /\ log'[t] = log[t] \cup {Recovery(t)}
      BY <1>1, <2>2, <2>4 DEF Stale, RowExists
    <3>2. faults' = 0 => Recovery(t).seq = Cardinality(log[t])
      BY <1>2, <2>1, <3>1, RecoveryNumber DEF Numbered
    <3> QED
      BY <1>2, <1>3, <2>1, <3>1, <3>2, AbandonedNumbered
  <2> QED
    BY <2>3, <2>4
<1> QED
  BY <1>4 DEF NumberedInv

LEMMA ShutdownNumbered ==
  ASSUME NoSweepAtShutdown, TypeInv, RecordInv, NumberedInv, ShutdownFinalize PROVE NumberedInv'
<1> DEFINE last(s)  == IF s \in registry THEN Event(nextSeq[s], "execution.failed") ELSE Recovery(s)
           accepted == {s \in Sessions : (s \in registry \/ Stale(s)) /\ Accepts(s, last(s))}
<1>1. PICK kept \in SUBSET accepted :
        /\ Written(kept, accepted)
        /\ Persist([s \in Sessions |-> IF s \in kept THEN {last(s)} ELSE {}])
        /\ row' = [s \in Sessions |->
             IF s \in kept \/ (s \in registry /\ RowExists(s)) THEN "FAILED" ELSE row[s]]
  BY DEF ShutdownFinalize
<1>2. faults' = 0 => faults = 0 /\ kept = accepted
  BY <1>1, WrittenEffect
<1>3. /\ registry = open /\ open' = {}
      /\ nextSeq' = [s \in Sessions |-> IF s \in registry THEN nextSeq[s] + 1 ELSE nextSeq[s]]
  BY DEF ShutdownFinalize, RecordInv, NoSweepAtShutdown
<1>4. ASSUME NEW t \in Sessions PROVE Numbered(t)'
  <2> DEFINE stored == IF t \in kept THEN {last(t)} ELSE {}
  <2>1. Numbered(t) /\ nextSeq[t] \in Nat
    BY DEF NumberedInv, TypeInv, TypeOK
  <2>2. log'[t] = log[t] \cup stored
    BY <1>1 DEF Persist
  <2>3. row'[t] = IF t \in kept \/ (t \in registry /\ RowExists(t)) THEN "FAILED" ELSE row[t]
    BY <1>1
  <2>4. nextSeq'[t] = IF t \in registry THEN nextSeq[t] + 1 ELSE nextSeq[t]
    BY <1>3
  <2>5. t \in kept => t \in accepted /\ RowExists(t)
    BY <1>1 DEF Accepts
  <2>6. t \in registry => last(t) = Event(nextSeq[t], "execution.failed") /\ last(t).seq = nextSeq[t]
    BY EventFields
  <2>7. t \notin registry => last(t) = Recovery(t)
    OBVIOUS
  <2>8. t \in registry /\ RowExists(t) => t \in accepted
    <3>1. t \in registry /\ RowExists(t) => Accepts(t, last(t))
      BY <1>3, <2>1, <2>6, OpenAccepts
    <3> QED
      BY <3>1
  <2> HIDE DEF last, accepted
  <2>9. CASE t \in kept \/ (t \in registry /\ RowExists(t))
    <3>1. RowExists(t) /\ row'[t] = "FAILED"
      BY <2>3, <2>5, <2>9
    <3>2. faults' = 0 => faults = 0 /\ stored = {last(t)}
      BY <1>2, <2>5, <2>8, <2>9
    <3>3. faults' = 0 => last(t).seq = Cardinality(log[t])
      <4>1. faults = 0 /\ t \in registry => last(t).seq = Cardinality(log[t])
        BY <1>3, <2>1, <2>6, <3>1 DEF Numbered
      <4>2. faults = 0 /\ t \notin registry => last(t).seq = Cardinality(log[t])
        BY <2>1, <2>7, <3>1, RecoveryNumber DEF Numbered
      <4> QED
        BY <3>2, <4>1, <4>2
    <3>4. stored \in SUBSET {last(t)}
      OBVIOUS
    <3> HIDE DEF stored
    <3> QED
      BY <1>3, <2>1, <2>2, <2>4, <3>1, <3>2, <3>3, <3>4, AbandonedNumbered
  <2>10. CASE ~(t \in kept \/ (t \in registry /\ RowExists(t)))
    <3>1. row'[t] = row[t] /\ log'[t] = log[t]
      BY <2>2, <2>3, <2>10
    <3>2. CASE t \in registry
      <4>1. ~RowExists(t) /\ row[t] # "NONE"
        BY <1>3, <2>10, <3>2 DEF RecordInv, RecordOf, Owned
      <4> QED
        BY <1>2, <2>1, <3>1, <4>1 DEF Numbered, RowExists
    <3>3. CASE t \notin registry
      BY <1>2, <1>3, <2>1, <2>4, <3>1, <3>3, NumberedSame
    <3> QED
      BY <3>2, <3>3
  <2> QED
    BY <2>9, <2>10
<1> QED
  BY <1>4 DEF NumberedInv

LEMMA NumberedNext ==
  ASSUME NoSweepAtShutdown, TypeInv, RecordInv, NumberedInv, Next PROVE NumberedInv'
<1>1. ASSUME NEW s \in Sessions, SessionStep(s) PROVE NumberedInv'
  <2>1. CASE Admit(s) \/ RefuseStart(s)
    BY <2>1, AdmitNumbered
  <2>2. CASE SpawnError(s) \/ Close(s)
    BY <2>2, EndingNumbered
  <2>3. CASE DeliverLine(s)
    BY <2>3, DeliverNumbered
  <2>4. CASE Sample(s)
    BY <2>4, SampleNumbered
  <2>5. CASE Delete(s)
    BY <2>5, DeleteNumbered
  <2>6. CASE \/ Timeout(s) \/ Terminate(s) \/ Escalate(s) \/ Sweep(s)
             \/ EngineFork(s) \/ EngineRefuse(s) \/ EngineReap(s)
             \/ ProgramEnds(s) \/ KillTakesEffect(s) \/ HolderEnds(s)
    <3>1. UNCHANGED <<row, log, nextSeq, faults>> /\ open' = open
      BY <2>6 DEF Timeout, Terminate, Escalate, Sweep, EngineFork, EngineRefuse, EngineReap,
                  ProgramEnds, KillTakesEffect, HolderEnds, db, memory
    <3> QED
      BY <3>1, QuietNumbered
  <2> QED
    BY <1>1, <2>1, <2>2, <2>3, <2>4, <2>5, <2>6 DEF SessionStep
<1>2. CASE \/ \E c \in Clients : Disconnect(c) \/ \E s \in Sessions : Connect(c, s)
           \/ \E d \in Dashboards : OpenDashboard(d) \/ CloseDashboard(d)
           \/ ShutdownBegin
  <2>1. UNCHANGED <<row, log, nextSeq, faults>> /\ open' = open
    BY <1>2 DEF Disconnect, Connect, OpenDashboard, CloseDashboard, ShutdownBegin, db, memory
  <2> QED
    BY <2>1, QuietNumbered
<1>3. CASE ShutdownExit \/ Crash
  <2>1. UNCHANGED <<row, log, nextSeq, faults>> /\ open' = {}
    BY <1>3 DEF ShutdownExit, Crash, Halt, db
  <2> QED
    BY <2>1, QuietNumbered
<1>4. CASE ShutdownFinalize
  BY <1>4, ShutdownNumbered
<1>5. CASE Boot
  BY <1>5, BootNumbered
<1> QED
  BY <1>1, <1>2, <1>3, <1>4, <1>5 DEF Next

(* Rules I2 to I4 of docs/architecture.md: as long as no write fails, the  *)
(* numbers of a history are 0, 1, 2, ... without a gap.  emit() numbers    *)
(* from the session's counter, the recovery and the shutdown from the      *)
(* table, and a line read after the end still uses the old counter: they   *)
(* meet in one sequence because that counter is the size of the history    *)
(* while the session is open, and never above it afterwards.               *)
THEOREM NumberingStaysDense ==
  ASSUME NoSweepAtShutdown PROVE Spec => []DenseNumbering
<1>1. Init => NumberedInv
  BY DenseEmpty DEF Init, NumberedInv, Numbered, RowExists
<1>2. TypeInv /\ RecordInv /\ NumberedInv /\ [Next]_vars => NumberedInv'
  <2>1. UNCHANGED vars /\ NumberedInv => NumberedInv'
    BY QuietNumbered DEF vars
  <2> QED
    BY <2>1, NumberedNext
<1>3. NumberedInv => DenseNumbering
  BY DEF NumberedInv, Numbered, Dense, DenseNumbering
<1> QED
  BY <1>1, <1>2, <1>3, RecordInvariant, PTL DEF Spec

-----------------------------------------------------------------------------
(* The gateway may still read a line of s. *)
BeingRead(s) == pipe[s] # <<>> \/ engine[s] \in {"launching", "running"}

(* Lines are read for registered sessions, or in the last phase of a       *)
(* shutdown; the number they get is not below the history's last.          *)
Reading(s) ==
  /\ engine[s] = "launching" => pipe[s] = <<>>
  /\ BeingRead(s) =>
       /\ gw # "down"
       /\ gw # "closing" => s \in registry
       /\ \A e \in log[s] : e.seq <= nextSeq[s]

ReadingInv == \A s \in Sessions : Reading(s)

(* What a stream has shown is a beginning of the history, and all of it    *)
(* while the stream is live.                                               *)
Follows(c) ==
  LET s == client[c].watch IN
  /\ s \notin Sessions => client[c].got = {}
  /\ s \in Sessions => row[s] # "NONE"
  /\ s \in Sessions /\ row[s] # "DELETED" =>
       /\ client[c].got \subseteq Seen(s)
       /\ \A n \in Seen(s) : (\E m \in client[c].got : n < m) => n \in client[c].got
  /\ client[c].live =>
       /\ row[s] # "DELETED" => client[c].got = Seen(s)
       /\ faults = 0 => row[s] \notin TerminalStatuses

FollowInv == \A c \in Clients : Follows(c)

(* Whose lines are read after a step: those of a session that was read     *)
(* before, or that has just been registered.                               *)
LEMMA ReadingStep ==
  ASSUME TypeInv, TypeInv', RecordInv', NEW t \in Sessions, Reading(t), gw' = gw,
         engine'[t] = "launching" => pipe'[t] = <<>>,
         BeingRead(t)' =>
           \/ /\ BeingRead(t)
              /\ t \in registry => t \in registry'
              /\ t \notin registry' =>
                   nextSeq'[t] = nextSeq[t] /\ \A e \in log'[t] : e \in log[t] \/ e.seq = nextSeq[t]
           \/ gw # "down" /\ t \in registry'
  PROVE  Reading(t)'
<1>1. /\ nextSeq'[t] \in Nat /\ nextSeq[t] \in Nat /\ \A e \in log'[t] : e.seq \in Nat
  BY DEF TypeInv, TypeOK, Entry
<1>2. t \in registry' => \A e \in log'[t] : e.seq <= nextSeq'[t]
  <2>1. t \in registry' => \A e \in log'[t] : e.seq < nextSeq'[t]
    BY DEF RecordInv, RecordOf, Owned
  <2> QED
    BY <1>1, <2>1
<1>3. BeingRead(t)' /\ t \notin registry' => \A e \in log'[t] : e.seq <= nextSeq'[t]
  BY <1>1 DEF Reading
<1> QED
  BY <1>2, <1>3 DEF Reading

LEMMA ReadingSame ==
  ASSUME ReadingInv, UNCHANGED <<engine, pipe, registry, nextSeq, log>>,
         gw' = gw \/ (gw' = "draining" /\ gw = "up")
  PROVE  ReadingInv'
BY DEF ReadingInv, Reading, BeingRead

(* A step of one session leaves the others as they are. *)
LEMMA ReadingOther ==
  ASSUME NEW t \in Sessions, Reading(t), gw' = gw, engine'[t] = engine[t], pipe'[t] = pipe[t],
         log'[t] = log[t], nextSeq'[t] = nextSeq[t], t \in registry' <=> t \in registry
  PROVE  Reading(t)'
BY DEF Reading, BeingRead

LEMMA ReadingEngine ==
  ASSUME TypeInv, TypeInv', RecordInv', ReadingInv, NEW s \in Sessions,
         EngineFork(s) \/ EngineRefuse(s) \/ EngineReap(s)
  PROVE  ReadingInv'
<1>1. /\ UNCHANGED <<registry, nextSeq, log, gw>>
      /\ engine \in [Sessions -> {"none", "launching", "running", "done", "orphan"}]
      /\ \A t \in Sessions : t # s => engine'[t] = engine[t] /\ pipe'[t] = pipe[t]
  BY DEF EngineFork, EngineRefuse, EngineReap, Reported, memory, db, control, TypeInv, TypeOK
<1>2. Reading(s)
  BY DEF ReadingInv
<1>3. CASE engine[s] = "orphan"
  <2>1. engine'[s] = "orphan" /\ pipe' = pipe
    BY <1>1, <1>3 DEF EngineFork, EngineRefuse, EngineReap, Reported
  <2> QED
    BY <1>1, <1>2, <1>3, <2>1, ReadingOther DEF ReadingInv
<1>4. CASE engine[s] # "orphan"
  <2>1. engine[s] \in {"launching", "running"} /\ engine'[s] \in {"running", "done"}
    BY <1>1, <1>4 DEF EngineFork, EngineRefuse, EngineReap
  <2>2. Reading(s)'
    BY <1>1, <1>2, <2>1 DEF Reading, BeingRead
  <2> QED
    BY <1>1, <2>2, ReadingOther DEF ReadingInv
<1> QED
  BY <1>3, <1>4

(* A session the registry does not have is not read before the shutdown.   *)
LEMMA NotRead ==
  ASSUME RecordInv, ReadingInv, NEW s \in Sessions, s \notin open, Serving
  PROVE  ~BeingRead(s)
BY DEF ReadingInv, Reading, RecordInv, Serving

LEMMA ReadingCallback ==
  ASSUME TypeInv, TypeInv', RecordInv, RecordInv', ReadingInv, NEW s \in Sessions,
         Admit(s) \/ RefuseStart(s) \/ SpawnError(s) \/ Close(s) \/ DeliverLine(s) \/ Sample(s)
  PROVE  ReadingInv'
<1>1. /\ engine \in [Sessions -> {"none", "launching", "running", "done", "orphan"}]
      /\ pipe \in [Sessions -> Seq(Lines)] /\ nextSeq \in [Sessions -> Nat]
  BY DEF TypeInv, TypeOK
<1>2. Reading(s) /\ RecordOf(s) /\ gw' = gw
  BY DEF ReadingInv, RecordInv, Admit, RefuseStart, SpawnError, Close, DeliverLine, Sample, control
<1>3. ASSUME NEW t \in Sessions, t # s PROVE Reading(t)'
  <2>1. /\ engine'[t] = engine[t] /\ pipe'[t] = pipe[t] /\ nextSeq'[t] = nextSeq[t]
        /\ t \in registry' <=> t \in registry
    BY <1>1, <1>3 DEF Admit, RefuseStart, SpawnError, Close, DeliverLine, Sample, Register, FinalizeFailed,
                      Finalize, memory, os
  <2>2. ASSUME NEW stored, Persist(Only(s, stored)) PROVE log'[t] = log[t]
    <3>1. log'[t] = log[t] \cup Only(s, stored)[t]
      BY <2>2, PersistEffect
    <3> QED
      BY <1>3, <3>1 DEF Only
  <2>3. \A sent : Emit(s, sent) => log'[t] = log[t]
    BY <2>2 DEF Emit
  <2>4. log'[t] = log[t]
    BY <2>2, <2>3 DEF Admit, RefuseStart, SpawnError, Close, DeliverLine, Sample, FinalizeFailed, Finalize
  <2> QED
    BY <1>2, <2>1, <2>4, ReadingOther DEF ReadingInv
<1>4. CASE Admit(s)
  <2>1. s \notin open /\ Serving
    BY <1>2, <1>4 DEF Admit, RecordOf, Owned
  <2>2. pipe[s] = <<>> /\ gw # "down"
    BY <2>1, NotRead DEF BeingRead, Serving
  <2>3. pipe' = pipe /\ s \in registry'
    BY <1>4 DEF Admit, Register
  <2>4. Reading(s)'
    BY <1>2, <2>2, <2>3, ReadingStep
  <2> QED
    BY <1>3, <2>4 DEF ReadingInv
<1>5. CASE RefuseStart(s)
  <2>1. s \notin open /\ Serving /\ engine' = engine /\ pipe' = pipe
    BY <1>2, <1>5 DEF RefuseStart, RecordOf, Owned, os
  <2>2. ~BeingRead(s)' /\ (engine'[s] = "launching" => pipe'[s] = <<>>)
    BY <2>1, NotRead DEF BeingRead
  <2> QED
    BY <1>3, <2>2 DEF ReadingInv, Reading
<1>6. CASE SpawnError(s) \/ Close(s)
  <2>1. pipe'[s] = <<>> /\ engine'[s] = "done"
    BY <1>1, <1>2, <1>6 DEF SpawnError, Close, StreamAtEnd, Reading, os
  <2> QED
    BY <1>3, <2>1 DEF ReadingInv, Reading, BeingRead
<1>7. CASE DeliverLine(s)
  <2>1. /\ engine' = engine /\ registry' = registry /\ pipe[s] # <<>>
        /\ nextSeq' = [nextSeq EXCEPT ![s] = @ + NumbersUsed(s)]
        /\ Emit(s, {Event(nextSeq[s], Head(pipe[s]).type)} \cup
                   (IF StartsLoop(s) THEN {Event(nextSeq[s] + 1, "process.snapshot")} ELSE {}))
    BY <1>7 DEF DeliverLine
  <2>2. s \notin registry => \A e \in log'[s] : e \in log[s] \/ e.seq = nextSeq[s]
    <3> DEFINE x == Event(nextSeq[s], Head(pipe[s]).type)
    <3>1. s \notin registry => Emit(s, {x})
      BY <2>1 DEF StartsLoop
    <3>2. x.seq = nextSeq[s]
      BY DEF Event
    <3> HIDE DEF x
    <3>3. s \notin registry =>
            \E stored \in SUBSET {e \in {x} : Accepts(s, e)} : log'[s] = log[s] \cup stored
      BY <3>1, EmitEffect
    <3> QED
      BY <3>2, <3>3
  <2>3. s \notin registry => nextSeq'[s] = nextSeq[s]
    BY <1>1, <2>1 DEF NumbersUsed
  <2>4. engine'[s] # "launching" /\ BeingRead(s)
    BY <1>2, <2>1 DEF Reading, BeingRead
  <2>5. Reading(s)'
    BY <1>2, <2>1, <2>2, <2>3, <2>4, ReadingStep
  <2> QED
    BY <1>3, <2>5 DEF ReadingInv
<1>8. CASE Sample(s)
  <2>1. /\ engine' = engine /\ pipe' = pipe /\ registry' = registry /\ s \in registry /\ gw # "down"
    BY <1>8 DEF Sample, os, Running
  <2>2. Reading(s)'
    BY <1>2, <2>1, ReadingStep DEF Reading
  <2> QED
    BY <1>3, <2>2 DEF ReadingInv
<1> QED
  BY <1>4, <1>5, <1>6, <1>7, <1>8

LEMMA ReadingNext ==
  ASSUME NoSweepAtShutdown, TypeInv, TypeInv', RecordInv, RecordInv', ReadingInv, Next
  PROVE  ReadingInv'
<1>1. ASSUME NEW s \in Sessions, SessionStep(s) PROVE ReadingInv'
  <2>1. CASE Admit(s) \/ RefuseStart(s) \/ SpawnError(s) \/ Close(s) \/ DeliverLine(s) \/ Sample(s)
    BY <2>1, ReadingCallback
  <2>2. CASE EngineFork(s) \/ EngineRefuse(s) \/ EngineReap(s)
    BY <2>2, ReadingEngine
  <2>3. CASE Timeout(s) \/ Terminate(s) \/ Escalate(s) \/ ProgramEnds(s) \/ KillTakesEffect(s) \/ HolderEnds(s)
    <3>1. UNCHANGED <<engine, pipe, registry, nextSeq, log, gw>>
      BY <2>3 DEF Timeout, Terminate, Escalate, ProgramEnds, KillTakesEffect, HolderEnds,
                  memory, os, db, control
    <3> QED
      BY <3>1, ReadingSame
  <2>4. CASE Sweep(s)
    <3>1. /\ UNCHANGED <<engine, pipe, nextSeq, log, gw>> /\ registry' = registry \ {s}
          /\ engine[s] = "done" /\ pipe[s] = <<>>
      BY <2>4 DEF Sweep, os, db, control
    <3> QED
      BY <3>1 DEF ReadingInv, Reading, BeingRead
  <2>5. CASE Delete(s)
    <3>1. /\ UNCHANGED <<engine, pipe, nextSeq, registry, gw>>
          /\ \A t \in Sessions : log'[t] \subseteq log[t]
      BY <2>5 DEF Delete, memory, os, control, TypeInv, TypeOK
    <3> QED
      BY <3>1 DEF ReadingInv, Reading, BeingRead
  <2> QED
    BY <1>1, <2>1, <2>2, <2>3, <2>4, <2>5 DEF SessionStep
<1>2. CASE \/ \E c \in Clients : Disconnect(c) \/ \E s \in Sessions : Connect(c, s)
           \/ \E d \in Dashboards : OpenDashboard(d) \/ CloseDashboard(d)
           \/ ShutdownBegin
  <2>1. /\ UNCHANGED <<engine, pipe, registry, nextSeq, log>>
        /\ gw' = gw \/ (gw' = "draining" /\ gw = "up")
    BY <1>2 DEF Disconnect, Connect, OpenDashboard, CloseDashboard, ShutdownBegin, memory, os, db, control
  <2> QED
    BY <2>1, ReadingSame
<1>3. CASE ShutdownFinalize
  <2> DEFINE last(s)  == IF s \in registry THEN Event(nextSeq[s], "execution.failed") ELSE Recovery(s)
             accepted == {s \in Sessions : (s \in registry \/ Stale(s)) /\ Accepts(s, last(s))}
  <2>1. /\ gw = "draining" /\ gw' = "closing" /\ engine' = engine /\ pipe' = pipe
        /\ nextSeq' = [s \in Sessions |-> IF s \in registry THEN nextSeq[s] + 1 ELSE nextSeq[s]]
    BY <1>3 DEF ShutdownFinalize, os
  <2>2. PICK kept \in SUBSET accepted :
          Persist([s \in Sessions |-> IF s \in kept THEN {last(s)} ELSE {}])
    BY <1>3 DEF ShutdownFinalize
  <2>3. ASSUME NEW t \in Sessions PROVE Reading(t)'
    <3>1. Reading(t) /\ (BeingRead(t)' <=> BeingRead(t))
      BY <2>1 DEF ReadingInv, BeingRead
    <3>2. CASE t \notin registry
      BY <2>1, <3>1, <3>2 DEF Reading
    <3>3. CASE t \in registry
      <4>1. \A e \in log'[t] : e \in log[t] \/ e.seq = nextSeq[t]
        <5>1. log'[t] = log[t] \cup IF t \in kept THEN {last(t)} ELSE {}
          BY <2>2 DEF Persist
        <5>2. last(t).seq = nextSeq[t]
          BY <3>3, EventFields
        <5> QED
          BY <5>1, <5>2
      <4>2. \A e \in log[t] : e.seq < nextSeq[t]
        BY <3>3 DEF RecordInv, RecordOf, Owned
      <4>3. /\ nextSeq'[t] = nextSeq[t] + 1 /\ nextSeq[t] \in Nat
            /\ \A e \in log'[t] : e.seq \in Nat
        BY <2>1, <3>3 DEF TypeInv, TypeOK, Entry
      <4>4. \A e \in log'[t] : e.seq <= nextSeq'[t]
        BY <4>1, <4>2, <4>3
      <4> QED
        BY <2>1, <3>1, <4>4 DEF Reading
    <3> QED
      BY <3>2, <3>3
  <2> QED
    BY <2>3 DEF ReadingInv
<1>4. CASE ShutdownExit \/ Crash
  <2>1. Halt
    BY <1>4 DEF ShutdownExit, Crash
  <2>2. \A s \in Sessions : pipe'[s] = <<>> /\ engine'[s] \notin {"launching", "running"}
    BY <2>1 DEF Halt
  <2> QED
    BY <2>2 DEF ReadingInv, Reading, BeingRead
<1>5. CASE Boot
  <2>1. gw = "down" /\ engine' = engine /\ pipe' = pipe
    BY <1>5 DEF Boot, os
  <2> QED
    BY <2>1 DEF ReadingInv, Reading, BeingRead
<1> QED
  BY <1>1, <1>2, <1>3, <1>4, <1>5 DEF Next

(* What is stored in one step comes after all that was stored before.      *)
Above(stored) == \A s \in Sessions : \A e \in stored[s] : \A f \in log[s] : f.seq < e.seq

(* Rows are created and deleted once, and while no write fails a row is    *)
(* finalized together with a terminal event.                               *)
RowStep(stored) ==
  /\ faults' = 0 => faults = 0
  /\ \A s \in Sessions :
       /\ row'[s] = "NONE" => row[s] = "NONE"
       /\ row'[s] # "DELETED" => row[s] # "DELETED"
       /\ faults' = 0 /\ row[s] # "NONE" /\ row[s] \notin TerminalStatuses /\ row'[s] \in TerminalStatuses =>
            \E e \in stored[s] : e.type \in TerminalEvents

(* A step that stores events sends them to the live streams.               *)
LEMMA StreamsGrow ==
  ASSUME TypeInv, TypeInv', FollowInv, NEW stored, Persist(stored), Above(stored), RowStep(stored)
  PROVE  FollowInv'
<1> SUFFICES ASSUME NEW c \in Clients, NEW s, s = client[c].watch PROVE Follows(c)'
  BY DEF FollowInv
<1>1. Follows(c) /\ (client[c].live => s \in Sessions)
  BY DEF FollowInv, TypeInv, TypeOK
<1>2. /\ client'[c].watch = s
      /\ ~client[c].live => client'[c] = client[c]
      /\ client[c].live =>
           /\ client'[c].got = client[c].got \cup {e.seq : e \in stored[s]}
           /\ client'[c].live <=> \A e \in stored[s] : e.type \notin TerminalEvents
  <2>1. client[c] \in [watch : Sessions \cup {"nobody"}, live : BOOLEAN, got : SUBSET Nat]
    BY DEF TypeInv, TypeOK
  <2> QED
    BY <2>1 DEF Persist
<1>3. s \notin Sessions => client'[c].got = {}
  BY <1>1, <1>2 DEF Follows
<1>4. s \in Sessions => row'[s] # "NONE"
  BY <1>1 DEF Follows, RowStep
<1>5. ASSUME s \in Sessions, row'[s] # "DELETED"
      PROVE  /\ client'[c].got \subseteq Seen(s)'
             /\ \A n \in Seen(s)' : (\E m \in client'[c].got : n < m) => n \in client'[c].got
             /\ client[c].live => client'[c].got = Seen(s)'
  <2>1. row[s] # "DELETED" /\ log'[s] = log[s] \cup stored[s]
    BY <1>5 DEF RowStep, Persist
  <2>2. /\ client[c].got \subseteq Seen(s)
        /\ \A n \in Seen(s) : (\E m \in client[c].got : n < m) => n \in client[c].got
        /\ client[c].live => client[c].got = Seen(s)
    BY <1>1, <1>5, <2>1 DEF Follows
  <2>3. /\ \A n \in Seen(s)' : n \in Seen(s) \/ \E e \in stored[s] : n = e.seq
        /\ Seen(s) \subseteq Seen(s)' /\ \A e \in stored[s] : e.seq \in Seen(s)'
    <3>1. Seen(s)' = {e.seq : e \in log'[s]}
      BY DEF Seen
    <3> QED
      BY <2>1, <3>1 DEF Seen
  <2>4. CASE client[c].live
    <3>1. client'[c].got = Seen(s)'
      <4>1. client'[c].got = Seen(s) \cup {e.seq : e \in stored[s]}
        BY <1>2, <2>2, <2>4
      <4> QED
        BY <2>3, <4>1
    <3> QED
      BY <3>1
  <2>5. CASE ~client[c].live
    <3>1. client'[c].got = client[c].got
      BY <1>2, <2>5
    <3>2. ASSUME NEW n \in Seen(s)', NEW m \in client[c].got, n < m PROVE n \in client[c].got
      <4>1. CASE n \in Seen(s)
        BY <2>2, <3>2, <4>1
      <4>2. CASE n \notin Seen(s)
        <5>1. PICK e \in stored[s] : n = e.seq
          BY <2>3, <3>2, <4>2
        <5>2. PICK f \in log[s] : m = f.seq
          BY <2>2, <3>2 DEF Seen
        <5>3. f.seq < e.seq /\ f.seq \in Nat /\ e.seq \in Nat
          BY <1>5, <2>1, <5>1, <5>2 DEF Above, TypeInv, TypeOK, Entry
        <5> QED
          BY <3>2, <5>1, <5>2, <5>3
      <4> QED
        BY <4>1, <4>2
    <3> QED
      BY <2>2, <2>3, <2>5, <3>1, <3>2
  <2> QED
    BY <2>4, <2>5
<1>6. ASSUME client'[c].live
      PROVE  /\ row'[s] # "DELETED" => client'[c].got = Seen(s)'
             /\ faults' = 0 => row'[s] \notin TerminalStatuses
  <2>1. client[c].live /\ s \in Sessions /\ \A e \in stored[s] : e.type \notin TerminalEvents
    BY <1>1, <1>2, <1>6
  <2>2. faults = 0 => row[s] # "NONE" /\ row[s] \notin TerminalStatuses
    BY <1>1, <2>1 DEF Follows
  <2>3. faults' = 0 => row'[s] \notin TerminalStatuses
    BY <2>1, <2>2 DEF RowStep
  <2> QED
    BY <1>5, <2>1, <2>3
<1>7. client'[c].live => client[c].live
  BY <1>2
<1> QED
  BY <1>2, <1>3, <1>4, <1>5, <1>6, <1>7 DEF Follows, Seen

(* emit(): an event is numbered above the history, or not accepted.        *)
LEMMA StreamsEmit ==
  ASSUME TypeInv, TypeInv', FollowInv, NEW s \in Sessions, NEW sent, Emit(s, sent),
         \A e \in sent : Accepts(s, e) => \A f \in log[s] : f.seq < e.seq,
         \A t \in Sessions : t # s => row'[t] = row[t],
         row'[s] = "NONE" => row[s] = "NONE", row'[s] # "DELETED" => row[s] # "DELETED",
         \/ row' = row
         \/ faults' = 0 => \E e \in sent : Accepts(s, e) /\ e.type \in TerminalEvents
  PROVE  FollowInv'
<1>1. PICK stored \in SUBSET {e \in sent : Accepts(s, e)} :
        /\ Written(stored, {e \in sent : Accepts(s, e)})
        /\ Persist(Only(s, stored))
  BY DEF Emit
<1>2. faults' = 0 => faults = 0 /\ stored = {e \in sent : Accepts(s, e)}
  BY <1>1, WrittenEffect
<1>3. \A t \in Sessions : Only(s, stored)[t] = IF t = s THEN stored ELSE {}
  BY DEF Only
<1>4. Above(Only(s, stored))
  BY <1>1, <1>3 DEF Above
<1>5. RowStep(Only(s, stored))
  BY <1>2, <1>3 DEF RowStep
<1> QED
  BY <1>1, <1>4, <1>5, StreamsGrow

(* Steps that store nothing.                                               *)
LEMMA StreamsSame ==
  ASSUME FollowInv, UNCHANGED <<client, row, log, faults>> PROVE FollowInv'
BY DEF FollowInv, Follows, Seen

LEMMA StreamsClose ==
  ASSUME FollowInv, UNCHANGED <<row, log, faults>>,
         \A c \in Clients : client'[c] = [client[c] EXCEPT !.live = FALSE] \/ client'[c] = client[c],
         TypeInv
  PROVE  FollowInv'
<1> SUFFICES ASSUME NEW c \in Clients PROVE Follows(c)'
  BY DEF FollowInv
<1>1. client[c] \in [watch : Sessions \cup {"nobody"}, live : BOOLEAN, got : SUBSET Nat] /\ Follows(c)
  BY DEF FollowInv, TypeInv, TypeOK
<1>2. client'[c].watch = client[c].watch /\ client'[c].got = client[c].got /\ (client'[c].live => client[c].live)
  BY <1>1
<1> QED
  BY <1>1, <1>2 DEF Follows, Seen

(* Every number of an open session's history is below its counter.         *)
LEMMA OpenAbove ==
  ASSUME TypeInv, RecordInv, NEW s \in Sessions, s \in open
  PROVE  /\ \A f \in log[s] : f.seq < nextSeq[s] /\ f.seq < nextSeq[s] + 1
         /\ nextSeq[s] \in Nat /\ row[s] \in {"CREATED", "DELETED"}
<1>1. \A f \in log[s] : f.seq < nextSeq[s] /\ f.seq \in Nat
  BY DEF RecordInv, RecordOf, Owned, TypeInv, TypeOK, Entry
<1>2. nextSeq[s] \in Nat /\ row[s] \in {"CREATED", "DELETED"}
  BY DEF RecordInv, RecordOf, Owned, TypeInv, TypeOK
<1> QED
  BY <1>1, <1>2

LEMMA OpenIsAccepted ==
  ASSUME TypeInv, RecordInv, NEW s \in Sessions, s \in open, RowExists(s), NEW x, x.seq = nextSeq[s]
  PROVE  Accepts(s, x)
<1>1. \A f \in log[s] : f.seq < nextSeq[s] /\ f.seq \in Nat /\ nextSeq[s] \in Nat
  BY OpenAbove DEF TypeInv, TypeOK, Entry
<1> QED
  BY <1>1 DEF Accepts

LEMMA StreamsStart ==
  ASSUME TypeInv, TypeInv', RecordInv, FollowInv, NEW s \in Sessions, Admit(s) \/ RefuseStart(s)
  PROVE  FollowInv'
<1>1. PICK kept \in {Event(1, "execution.started"), Event(1, "execution.failed")} :
        \E k \in SUBSET {kept} : Written(k, {kept}) /\ Persist(Only(s, {Created} \cup k))
  BY DEF Admit, RefuseStart
<1>2. PICK k \in SUBSET {kept} : Written(k, {kept}) /\ Persist(Only(s, {Created} \cup k))
  BY <1>1
<1> DEFINE stored == Only(s, {Created} \cup k)
<1>3. row[s] = "NONE" /\ log[s] = {}
  BY DEF Admit, RefuseStart, RecordInv, RecordOf
<1>4. /\ row'[s] \in {"CREATED", "FAILED"} /\ \A t \in Sessions : t # s => row'[t] = row[t]
      /\ faults' = 0 => faults = 0
  <2>1. row \in [Sessions -> RowStatuses]
    BY DEF TypeInv, TypeOK
  <2> QED
    BY <1>2, <2>1, WrittenEffect DEF Admit, RefuseStart
<1>5. Above(stored)
  BY <1>3 DEF Above, Only
<1>6. RowStep(stored)
  BY <1>3, <1>4 DEF RowStep
<1> HIDE DEF stored
<1> QED
  BY <1>2, <1>5, <1>6, StreamsGrow DEF stored

LEMMA StreamsEnd ==
  ASSUME TypeInv, TypeInv', RecordInv, FollowInv, NEW s \in Sessions, SpawnError(s) \/ Close(s)
  PROVE  FollowInv'
<1>1. row \in [Sessions -> RowStatuses] /\ s \in open
  BY DEF SpawnError, Close, TypeInv, TypeOK
<1> DEFINE failed == Event(nextSeq[s], "execution.failed")
           final  == Event(nextSeq[s], FinalType(Verdict(s)))
<1>2. /\ failed.seq = nextSeq[s] /\ failed.type \in TerminalEvents
      /\ final.seq = nextSeq[s] /\ final.type \in TerminalEvents
  <2>1. Verdict(s) \in TerminalStatuses
    BY DEF Verdict, DecideStatus, TerminalStatuses
  <2>2. FinalType(Verdict(s)) \in TerminalEvents
    BY <2>1 DEF FinalType, TerminalStatuses, TerminalEvents
  <2> QED
    BY <2>2, EventFields, OpenTypes
<1>3. CASE SpawnError(s)
  <2>1. Emit(s, {failed}) /\ row' = IF RowExists(s) THEN [row EXCEPT ![s] = "FAILED"] ELSE row
    BY <1>3 DEF SpawnError, FinalizeFailed
  <2> HIDE DEF failed
  <2>2. \/ row' = row
        \/ Accepts(s, failed)
    BY <1>1, <1>2, <2>1, OpenIsAccepted
  <2>3. row'[s] = "NONE" => row[s] = "NONE"
    BY <1>1, <2>1
  <2>4. row'[s] # "DELETED" => row[s] # "DELETED"
    BY <1>1, <2>1 DEF RowExists
  <2>5. \A t \in Sessions : t # s => row'[t] = row[t]
    BY <1>1, <2>1
  <2> QED
    BY <1>1, <1>2, <2>1, <2>2, <2>3, <2>4, <2>5, OpenAbove, StreamsEmit
<1>4. CASE Close(s)
  <2> DEFINE accepted == {e \in {final} : Accepts(s, e)}
  <2>1. PICK stored \in SUBSET accepted :
          /\ Written(stored, accepted)
          /\ Persist(Only(s, stored))
          /\ row' = IF stored = {} THEN row ELSE [row EXCEPT ![s] = Verdict(s)]
    BY <1>4 DEF Close, Finalize
  <2>2. Emit(s, {final})
    BY <2>1 DEF Emit
  <2>3. Verdict(s) \notin {"NONE", "DELETED"}
    BY DEF Verdict, DecideStatus
  <2> HIDE DEF final
  <2>4. stored # {} => Accepts(s, final) /\ RowExists(s)
    BY <2>1 DEF Accepts
  <2>5. row' = row \/ Accepts(s, final)
    BY <2>1, <2>4
  <2>6. row'[s] = "NONE" => row[s] = "NONE"
    BY <1>1, <2>1, <2>3
  <2>7. row'[s] # "DELETED" => row[s] # "DELETED"
    BY <1>1, <2>1, <2>4 DEF RowExists
  <2>8. \A t \in Sessions : t # s => row'[t] = row[t]
    BY <1>1, <2>1
  <2> QED
    BY <1>1, <1>2, <2>2, <2>5, <2>6, <2>7, <2>8, OpenAbove, StreamsEmit
<1> QED
  BY <1>3, <1>4

(* A line read late has the counter's number, and comes last if accepted.  *)
LEMMA StreamsLine ==
  ASSUME TypeInv, TypeInv', RecordInv, ReadingInv, FollowInv, NEW s \in Sessions,
         DeliverLine(s) \/ Sample(s)
  PROVE  FollowInv'
<1> DEFINE x == Event(nextSeq[s], Head(pipe[s]).type)
           y == Event(nextSeq[s] + 1, "process.snapshot")
           z == Event(nextSeq[s], "process.snapshot")
<1>1. x.seq = nextSeq[s] /\ y.seq = nextSeq[s] + 1 /\ z.seq = nextSeq[s] /\ row' = row
  BY EventFields DEF DeliverLine, Sample
<1>2. /\ DeliverLine(s) => Emit(s, {x} \cup (IF StartsLoop(s) THEN {y} ELSE {})) /\ pipe[s] # <<>>
      /\ Sample(s) => Emit(s, {z}) /\ s \in open
      /\ StartsLoop(s) => s \in open
  BY DEF DeliverLine, Sample, StartsLoop, RecordInv
<1> HIDE DEF x, y, z
<1>3. CASE s \in open
  <2>1. PICK sent \in SUBSET {x, y, z} : Emit(s, sent)
    BY <1>2
  <2>2. \A e \in sent : \A f \in log[s] : f.seq < e.seq
    BY <1>1, <1>3, <2>1, OpenAbove
  <2> QED
    BY <1>1, <2>1, <2>2, StreamsEmit
<1>4. CASE s \notin open
  <2>1. Emit(s, {x}) /\ BeingRead(s)
    BY <1>2, <1>4 DEF BeingRead
  <2>2. \A f \in log[s] : f.seq <= nextSeq[s] /\ f.seq \in Nat /\ nextSeq[s] \in Nat
    BY <2>1 DEF ReadingInv, Reading, TypeInv, TypeOK, Entry
  <2>3. Accepts(s, x) => \A f \in log[s] : f.seq < x.seq
    BY <1>1, <2>2 DEF Accepts
  <2> QED
    BY <1>1, <2>1, <2>3, StreamsEmit
<1> QED
  BY <1>3, <1>4

LEMMA StreamsDelete ==
  ASSUME TypeInv, FollowInv, NEW s \in Sessions, Delete(s) PROVE FollowInv'
<1> SUFFICES ASSUME NEW c \in Clients PROVE Follows(c)'
  BY DEF FollowInv
<1>1. /\ row' = [row EXCEPT ![s] = "DELETED"] /\ log' = [log EXCEPT ![s] = {}]
      /\ client' = client /\ faults' = faults
      /\ row \in [Sessions -> RowStatuses] /\ log \in [Sessions -> SUBSET Entry]
      /\ client[c].live => client[c].watch \in Sessions
  BY DEF Delete, TypeInv, TypeOK
<1>2. Follows(c)
  BY DEF FollowInv
<1>3. CASE client[c].watch = s
  <2>1. row'[s] = "DELETED"
    BY <1>1
  <2> QED
    BY <1>1, <1>2, <1>3, <2>1 DEF Follows, TerminalStatuses
<1>4. CASE client[c].watch # s
  <2>1. client[c].watch \in Sessions =>
          row'[client[c].watch] = row[client[c].watch] /\ log'[client[c].watch] = log[client[c].watch]
    BY <1>1, <1>4
  <2> QED
    BY <1>1, <1>2, <2>1 DEF Follows, Seen
<1> QED
  BY <1>3, <1>4

(* The backlog continues what a browser has, without a hole, up to the end *)
(* of the history or a terminal event.                                     *)
LEMMA StreamsConnect ==
  ASSUME "nobody" \notin Sessions, TypeInv, FollowInv,
         NEW c \in Clients, NEW s \in Sessions, Connect(c, s)
  PROVE  FollowInv'
<1> DEFINE got     == client[c].got
           backlog == {e \in log[s] : \A n \in got : n < e.seq}
           ends    == {e \in backlog : e.type \in TerminalEvents}
           sent    == {e \in backlog : \A t \in ends : e.seq <= t.seq}
           new     == [watch |-> s,
                       live  |-> ends = {} /\ row[s] \notin TerminalStatuses,
                       got   |-> got \cup {e.seq : e \in sent}]
<1>1. /\ client' = [client EXCEPT ![c] = new] /\ UNCHANGED <<row, log, faults>>
      /\ RowExists(s) /\ client[c].watch \in {"nobody", s}
  BY DEF Connect, db
<1>2. /\ client'[c] = new /\ \A d \in Clients : d # c => client'[d] = client[d]
  BY <1>1 DEF TypeInv, TypeOK
<1>3. \A d \in Clients : Follows(d)
  BY DEF FollowInv
<1>4. /\ \A e \in log[s] : e.seq \in Nat
      /\ \A n \in got : n \in Nat
  BY DEF TypeInv, TypeOK, Entry
<1>5. got \subseteq Seen(s) /\ \A n \in Seen(s) : (\E m \in got : n < m) => n \in got
  BY <1>1, <1>3 DEF Follows, RowExists
<1>6. ASSUME NEW e \in log[s], e.seq \notin got PROVE e \in backlog
  <2> SUFFICES ASSUME NEW n \in got PROVE n < e.seq
    OBVIOUS
  <2>1. e.seq \in Seen(s)
    BY DEF Seen
  <2>2. ~(e.seq < n) /\ e.seq # n /\ e.seq \in Nat /\ n \in Nat
    BY <1>4, <1>5, <1>6, <2>1
  <2> QED
    BY <2>2
<1>7. new.got \subseteq Seen(s)
  BY <1>5 DEF Seen
<1>8. ASSUME NEW n \in Seen(s), NEW m \in new.got, n < m PROVE n \in new.got
  <2>1. PICK e \in log[s] : n = e.seq
    BY DEF Seen
  <2>2. CASE n \in got \/ m \in got
    BY <1>5, <1>8, <2>2
  <2>3. CASE n \notin got /\ m \notin got
    <3>1. PICK g \in sent : m = g.seq
      BY <1>8, <2>3
    <3>2. e \in backlog
      BY <1>6, <2>1, <2>3
    <3>3. \A t \in ends : e.seq <= t.seq
      BY <1>4, <1>8, <2>1, <3>1
    <3> QED
      BY <2>1, <3>2, <3>3
  <2> QED
    BY <2>2, <2>3
<1>9. new.live => new.got = Seen(s) /\ row[s] \notin TerminalStatuses
  <2> SUFFICES ASSUME new.live PROVE new.got = Seen(s) /\ row[s] \notin TerminalStatuses
    OBVIOUS
  <2>1. ends = {} /\ row[s] \notin TerminalStatuses
    OBVIOUS
  <2>2. ASSUME NEW n \in Seen(s), n \notin got PROVE n \in new.got
    <3>1. PICK e \in log[s] : n = e.seq
      BY DEF Seen
    <3>2. e \in backlog
      BY <1>6, <2>2, <3>1
    <3>3. e \in sent
      BY <2>1, <3>2
    <3> QED
      BY <3>1, <3>3
  <2>3. got \subseteq new.got
    OBVIOUS
  <2> HIDE DEF new
  <2> QED
    BY <1>7, <2>1, <2>2, <2>3
<1>10. Seen(s)' = Seen(s) /\ row'[s] = row[s] /\ row[s] \notin {"NONE", "DELETED"} /\ new.watch = s
  BY <1>1 DEF Seen, RowExists
<1> HIDE DEF new
<1>11. Follows(c)'
  BY <1>2, <1>7, <1>8, <1>9, <1>10 DEF Follows, Seen
<1>12. ASSUME NEW d \in Clients, d # c PROVE Follows(d)'
  BY <1>1, <1>2, <1>3, <1>12 DEF Follows, Seen
<1> QED
  BY <1>11, <1>12 DEF FollowInv

LEMMA StreamsBoot ==
  ASSUME TypeInv, TypeInv', FollowInv, Boot PROVE FollowInv'
<1> DEFINE accepted == {s \in Sessions : Stale(s) /\ Accepts(s, Recovery(s))}
<1>1. PICK kept \in SUBSET accepted :
        /\ Written(kept, accepted)
        /\ Persist([s \in Sessions |-> IF s \in kept THEN {Recovery(s)} ELSE {}])
        /\ row' = [s \in Sessions |-> IF s \in kept THEN "FAILED" ELSE row[s]]
  BY DEF Boot
<1> DEFINE stored == [s \in Sessions |-> IF s \in kept THEN {Recovery(s)} ELSE {}]
<1>2. Above(stored)
  BY RecoveryAbove DEF Above
<1>3. faults' = 0 => faults = 0
  BY <1>1, WrittenEffect
<1>4. \A s \in kept : row[s] = "CREATED" /\ Recovery(s).type \in TerminalEvents
  BY <1>1, EventFields, OpenTypes DEF Stale, Recovery
<1>5. RowStep(stored)
  BY <1>1, <1>3, <1>4 DEF RowStep
<1> HIDE DEF stored
<1> QED
  BY <1>1, <1>2, <1>5, StreamsGrow DEF stored

LEMMA StreamsShutdown ==
  ASSUME TypeInv, TypeInv', RecordInv, FollowInv, ShutdownFinalize PROVE FollowInv'
<1> DEFINE last(s)  == IF s \in registry THEN Event(nextSeq[s], "execution.failed") ELSE Recovery(s)
           accepted == {s \in Sessions : (s \in registry \/ Stale(s)) /\ Accepts(s, last(s))}
<1>1. PICK kept \in SUBSET accepted :
        /\ Written(kept, accepted)
        /\ Persist([s \in Sessions |-> IF s \in kept THEN {last(s)} ELSE {}])
        /\ row' = [s \in Sessions |->
             IF s \in kept \/ (s \in registry /\ RowExists(s)) THEN "FAILED" ELSE row[s]]
  BY DEF ShutdownFinalize
<1> DEFINE stored == [s \in Sessions |-> IF s \in kept THEN {last(s)} ELSE {}]
<1>2. \A s \in Sessions : s \in registry => s \in open /\ last(s).seq = nextSeq[s]
  BY EventFields DEF RecordInv
<1>3. Above(stored)
  <2>1. ASSUME NEW s \in Sessions PROVE \A f \in log[s] : f.seq < last(s).seq
    BY <1>2, OpenAbove, RecoveryAbove
  <2> HIDE DEF last
  <2> QED
    BY <2>1 DEF Above
<1>4. \A s \in Sessions : last(s).type \in TerminalEvents
  BY EventFields, OpenTypes DEF Recovery
<1>5. \A s \in registry : RowExists(s) => Accepts(s, last(s))
  <2>1. registry \subseteq Sessions
    BY DEF TypeInv, TypeOK
  <2> HIDE DEF last
  <2> QED
    BY <1>2, <2>1, OpenIsAccepted
<1>6. faults' = 0 => faults = 0 /\ kept = accepted
  BY <1>1, WrittenEffect
<1>7. \A s \in kept : RowExists(s)
  BY <1>1 DEF Accepts
<1> HIDE DEF last
<1>8. RowStep(stored)
  <2>1. ASSUME NEW s \in Sessions
        PROVE  /\ row'[s] = "NONE" => row[s] = "NONE"
               /\ row'[s] # "DELETED" => row[s] # "DELETED"
    BY <1>1, <1>7 DEF RowExists
  <2>2. ASSUME NEW s \in Sessions, faults' = 0, row[s] \notin TerminalStatuses, row'[s] \in TerminalStatuses
        PROVE  \E e \in stored[s] : e.type \in TerminalEvents
    <3>1. s \in kept
      BY <1>1, <1>5, <1>6, <2>2
    <3> QED
      BY <1>4, <3>1
  <2> HIDE DEF stored
  <2> QED
    BY <1>6, <2>1, <2>2 DEF RowStep
<1> HIDE DEF stored
<1> QED
  BY <1>1, <1>3, <1>8, StreamsGrow DEF stored

LEMMA StreamsNext ==
  ASSUME "nobody" \notin Sessions, TypeInv, TypeInv', RecordInv, ReadingInv, FollowInv, Next
  PROVE  FollowInv'
<1>1. ASSUME NEW s \in Sessions, SessionStep(s) PROVE FollowInv'
  <2>1. CASE Admit(s) \/ RefuseStart(s)
    BY <2>1, StreamsStart
  <2>2. CASE SpawnError(s) \/ Close(s)
    BY <2>2, StreamsEnd
  <2>3. CASE DeliverLine(s) \/ Sample(s)
    BY <2>3, StreamsLine
  <2>4. CASE Delete(s)
    BY <2>4, StreamsDelete
  <2>5. CASE \/ Timeout(s) \/ Terminate(s) \/ Escalate(s) \/ Sweep(s)
             \/ EngineFork(s) \/ EngineRefuse(s) \/ EngineReap(s)
             \/ ProgramEnds(s) \/ KillTakesEffect(s) \/ HolderEnds(s)
    <3>1. UNCHANGED <<client, row, log, faults>>
      BY <2>5 DEF Timeout, Terminate, Escalate, Sweep, EngineFork, EngineRefuse, EngineReap,
                  ProgramEnds, KillTakesEffect, HolderEnds, db
    <3> QED
      BY <3>1, StreamsSame
  <2> QED
    BY <1>1, <2>1, <2>2, <2>3, <2>4, <2>5 DEF SessionStep
<1>2. ASSUME NEW c \in Clients, Disconnect(c) PROVE FollowInv'
  <2>1. UNCHANGED <<row, log, faults>> /\ client' = [client EXCEPT ![c].live = FALSE]
    BY <1>2 DEF Disconnect, db
  <2>2. \A d \in Clients : client'[d] = [client[d] EXCEPT !.live = FALSE] \/ client'[d] = client[d]
    BY <2>1 DEF TypeInv, TypeOK
  <2> QED
    BY <2>1, <2>2, StreamsClose
<1>3. ASSUME NEW c \in Clients, NEW s \in Sessions, Connect(c, s) PROVE FollowInv'
  BY <1>3, StreamsConnect
<1>4. CASE (\E d \in Dashboards : OpenDashboard(d) \/ CloseDashboard(d)) \/ ShutdownBegin
  <2>1. UNCHANGED <<client, row, log, faults>>
    BY <1>4 DEF OpenDashboard, CloseDashboard, ShutdownBegin, db
  <2> QED
    BY <2>1, StreamsSame
<1>5. CASE ShutdownExit \/ Crash
  <2>1. Halt
    BY <1>5 DEF ShutdownExit, Crash
  <2>2. UNCHANGED <<row, log, faults>> /\ \A d \in Clients : client'[d] = [client[d] EXCEPT !.live = FALSE]
    BY <2>1 DEF Halt, db
  <2> QED
    BY <2>2, StreamsClose
<1> QED
  BY <1>1, <1>2, <1>3, <1>4, <1>5, StreamsBoot, StreamsShutdown DEF Next

LEMMA StreamsInvariant ==
  ASSUME NoSweepAtShutdown, "nobody" \notin Sessions
  PROVE  Spec => [](TypeInv /\ RecordInv /\ ReadingInv /\ FollowInv)
<1>1. Init => ReadingInv /\ FollowInv
  <2>1. Init => ReadingInv
    BY DEF Init, ReadingInv, Reading, BeingRead
  <2>2. ASSUME Init, NEW c \in Clients PROVE Follows(c)
    <3>1. client[c] = NoStream
      BY <2>2 DEF Init
    <3> QED
      BY <3>1 DEF NoStream, Follows
  <2> QED
    BY <2>1, <2>2 DEF FollowInv
<1>2. /\ TypeInv /\ RecordInv /\ TypeInv' /\ RecordInv' /\ ReadingInv /\ FollowInv /\ [Next]_vars
      => ReadingInv' /\ FollowInv'
  <2>1. ASSUME UNCHANGED vars, ReadingInv, FollowInv PROVE ReadingInv' /\ FollowInv'
    <3>1. UNCHANGED <<engine, pipe, registry, nextSeq, log, gw, client, row, faults>>
      BY <2>1 DEF vars
    <3> QED
      BY <2>1, <3>1, ReadingSame, StreamsSame
  <2> QED
    BY <2>1, ReadingNext, StreamsNext
<1> QED
  BY <1>1, <1>2, RecordInvariant, PTL DEF Spec

(* A browser is shown only what a replay would return, and that without a  *)
(* hole, whenever it connected, lost its connection or came back: what is  *)
(* stored in a step has a number above the whole history, and a stream     *)
(* resumes above the last frame it has.                                    *)
THEOREM StreamsAreReplays ==
  ASSUME NoSweepAtShutdown, "nobody" \notin Sessions PROVE Spec => []StreamsShowReplay
<1>1. FollowInv => StreamsShowReplay
  BY DEF FollowInv, Follows, StreamsShowReplay
<1> QED
  BY <1>1, StreamsInvariant, PTL

(* A live stream is complete, and an execution that is over leaves no      *)
(* stream open as long as no write fails.                                  *)
THEOREM LiveStreamsKeepUp ==
  ASSUME NoSweepAtShutdown, "nobody" \notin Sessions PROVE Spec => []LiveStreamsAreCurrent
<1>1. FollowInv => LiveStreamsAreCurrent
  BY DEF FollowInv, Follows, LiveStreamsAreCurrent
<1> QED
  BY <1>1, StreamsInvariant, PTL

=============================================================================
