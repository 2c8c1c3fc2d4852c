-------------------------- MODULE AuditQueueProofs --------------------------
(***************************************************************************)
(* Theorems about AuditQueue, for any number of requests and any buffer.   *)
(***************************************************************************)
EXTENDS AuditQueue, FiniteSetTheorems, SequenceTheorems, TLAPS

\* How far the shutdown has come determines what is closed and who may still write.
Stages ==
    /\ main \in {"serving", "draining", "stopCleanup", "closeQueue", "await", "closeDB",
                 "exiting", "exited", "forced", "panicked"}
    /\ closed => main \in {"await", "closeDB", "exiting", "exited", "panicked"}
    /\ main \in {"await", "closeDB", "exiting", "exited"} => closed
    /\ workerDone => closed /\ queue = <<>> /\ writing = NoEntry
    /\ main \in {"closeDB", "exiting", "exited"} => workerDone
    /\ ~dbOpen => workerDone
    /\ main \notin {"serving", "draining", "forced"} =>
         \A r \in Requests : pc[r] \notin {"working", "fallback"}

InFallback == {e \in Emitters : pc[e] = "fallback"}

\* A drop is only counted by a fallback that has been counted before.
Counted ==
    /\ IsFiniteSet(InFallback)
    /\ fallbackCount \in Nat /\ droppedCount \in Nat
    /\ droppedCount + Cardinality(InFallback) <= fallbackCount

Types ==
    /\ pc \in [Emitters -> {"idle", "working", "fallback", "logged", "quiet"}]
    /\ queue \in Seq(Emitters) /\ Len(queue) <= Buffer
    /\ stored \in Seq(Emitters) /\ reported \subseteq Emitters
    /\ writing \in Emitters \cup {NoEntry}
    /\ closed \in BOOLEAN /\ workerDone \in BOOLEAN /\ dbOpen \in BOOLEAN

\* An entry is in at most one place, and in none before log has taken it over.
OnePlace ==
    /\ \A e \in Emitters : pc[e] # "logged" =>
         e \notin Among(queue) /\ e # writing /\ e \notin Among(stored)
    /\ \A i, j \in 1..Len(queue) : queue[i] = queue[j] => i = j
    /\ writing \notin Among(queue)
    /\ \A e \in Among(stored) : e \notin Among(queue) /\ e # writing
    /\ StoredOnce

IInv == Types /\ Counted /\ Stages /\ OnePlace /\ NothingVanishes

---------------------------------------------------------------------------
(* Sequences without duplicates. *)

\* Append puts the entry at the end and leaves the others where they are.
LEMMA AppendFacts ==
    ASSUME NEW s \in Seq(Emitters), NEW e \in Emitters
    PROVE  /\ Append(s, e) \in Seq(Emitters) /\ Len(Append(s, e)) = Len(s) + 1
           /\ Among(Append(s, e)) = Among(s) \cup {e}
           /\ \A i \in 1..Len(s) : Append(s, e)[i] = s[i]
           /\ Append(s, e)[Len(s) + 1] = e
<1>1. /\ Append(s, e) \in Seq(Emitters) /\ Len(Append(s, e)) = Len(s) + 1
      /\ \A i \in 1..Len(s) : Append(s, e)[i] = s[i]
      /\ Append(s, e)[Len(s) + 1] = e
  BY AppendProperties
<1>2. Len(s) \in Nat
  BY LenProperties
<1>3. 1..(Len(s) + 1) = 1..Len(s) \cup {Len(s) + 1}
  BY <1>2
<1>4. Among(Append(s, e)) = Among(s) \cup {e}
  BY <1>1, <1>2, <1>3 DEF Among
<1> QED  BY <1>1, <1>4

\* A sequence without duplicates stays one when a new entry is appended.
LEMMA AppendDistinct ==
    ASSUME NEW s \in Seq(Emitters), NEW e \in Emitters, e \notin Among(s),
           \A i, j \in 1..Len(s) : s[i] = s[j] => i = j
    PROVE  LET t == Append(s, e)
           IN  \A i, j \in 1..Len(t) : t[i] = t[j] => i = j
<1>1. Len(s) \in Nat
  BY LenProperties
<1>2. \A i \in 1..Len(s) : s[i] # e
  BY DEF Among
<1> QED  BY <1>1, <1>2, AppendFacts

\* Taking the head of a sequence without duplicates leaves the others.
LEMMA TailFacts ==
    ASSUME NEW s \in Seq(Emitters), s # <<>>,
           \A i, j \in 1..Len(s) : s[i] = s[j] => i = j
    PROVE  /\ Head(s) \in Emitters /\ Tail(s) \in Seq(Emitters) /\ Len(Tail(s)) = Len(s) - 1
           /\ Among(s) = Among(Tail(s)) \cup {Head(s)}
           /\ Head(s) \notin Among(Tail(s))
           /\ \A i, j \in 1..Len(Tail(s)) : Tail(s)[i] = Tail(s)[j] => i = j
<1>1. /\ Head(s) \in Emitters /\ Tail(s) \in Seq(Emitters) /\ Len(Tail(s)) = Len(s) - 1
      /\ \A i \in 1..Len(Tail(s)) : Tail(s)[i] = s[i + 1]
  BY HeadTailProperties
<1>2. Len(s) \in Nat \ {0} /\ Head(s) = s[1]
  BY EmptySeq
<1>3. Among(s) = Among(Tail(s)) \cup {Head(s)}
  <2>1. Among(s) \subseteq Among(Tail(s)) \cup {Head(s)}
    <3> SUFFICES ASSUME NEW i \in 1..Len(s)
                 PROVE  s[i] \in Among(Tail(s)) \cup {Head(s)}
      BY DEF Among
    <3>1. CASE i = 1
      BY <3>1, <1>2
    <3>2. CASE i # 1
      <4>1. i - 1 \in 1..Len(Tail(s)) /\ (i - 1) + 1 = i
        BY <3>2, <1>1, <1>2
      <4> QED  BY <4>1, <1>1 DEF Among
    <3> QED  BY <3>1, <3>2
  <2>2. Among(Tail(s)) \cup {Head(s)} \subseteq Among(s)
    <3>1. \A i \in 1..Len(Tail(s)) : i + 1 \in 1..Len(s)
      BY <1>1, <1>2
    <3>2. 1 \in 1..Len(s)
      BY <1>2
    <3> QED  BY <3>1, <3>2, <1>1, <1>2 DEF Among
  <2> QED  BY <2>1, <2>2
<1>4. Head(s) \notin Among(Tail(s))
  <2>1. \A i \in 1..Len(Tail(s)) : i + 1 \in 1..Len(s) /\ 1 \in 1..Len(s) /\ i + 1 # 1
    BY <1>1, <1>2
  <2> QED  BY <2>1, <1>1, <1>2 DEF Among
<1>5. \A i, j \in 1..Len(Tail(s)) : Tail(s)[i] = Tail(s)[j] => i = j
  BY <1>1, <1>2
<1> QED  BY <1>1, <1>3, <1>4, <1>5

\* Nothing is among the entries of an empty sequence.
LEMMA AmongEmpty == Among(<<>>) = {}
BY DEF Among

---------------------------------------------------------------------------
(* The steps of the emitters. *)

\* An emitter that has not handed over its entry moves on without touching it.
LEMMA MoveOK ==
    ASSUME IInv, NEW e \in Emitters, NEW s \in {"working", "quiet"},
           pc[e] \in {"idle", "working"}, pc' = [pc EXCEPT ![e] = s],
           e \in Requests /\ s = "working" => main = "serving",
           UNCHANGED <<queue, closed, writing, workerDone, stored, reported,
                       fallbackCount, droppedCount, dbOpen, main>>
    PROVE  IInv'
<1>1. Types'
  BY DEF IInv, Types
<1>2. Counted'
  <2>1. InFallback' = InFallback
    BY DEF IInv, Types, InFallback
  <2> QED  BY <2>1 DEF IInv, Counted
<1>3. Stages'
  BY DEF IInv, Types, Stages
<1>4. /\ queue' = queue /\ stored' = stored /\ writing' = writing
      /\ Among(queue') = Among(queue) /\ Among(stored') = Among(stored)
      /\ \A d \in Emitters : pc'[d] = "logged" <=> pc[d] = "logged"
  BY DEF IInv, Types, Among
<1>5. OnePlace'
  BY <1>4 DEF IInv, OnePlace, StoredOnce
<1>6. NothingVanishes'
  BY <1>4 DEF IInv, NothingVanishes
<1> QED  BY <1>1, <1>2, <1>3, <1>5, <1>6 DEF IInv

\* Quiet, and the steps of requests and clean-up before it.
LEMMA ArriveOK ==
    ASSUME IInv, NEW e \in Emitters,
           \/ e \in Requests /\ Accept(e)
           \/ e = Purge /\ (Tick \/ StopPurge)
           \/ Quiet(e)
    PROVE  IInv'
BY MoveOK, EmitterAssumption DEF Accept, Tick, StopPurge, Quiet

\* Log hands the entry to the channel, or to the fallback, or ends the process.
LEMMA LogOK == ASSUME IInv, Running, NEW e \in Emitters, Log(e) PROVE IInv'
<1>1. /\ Len(queue) \in Nat /\ e \notin Among(queue) /\ e # writing /\ e \notin Among(stored)
      /\ pc[e] = "working"
  BY LenProperties DEF Log, IInv, Types, OnePlace
<1>2. /\ UNCHANGED <<closed, writing, workerDone, stored, reported, droppedCount, dbOpen>>
      /\ Among(stored') = Among(stored)
  BY DEF Log, Among
<1>3. CASE closed
  <2>1. /\ main' = "panicked" /\ UNCHANGED <<pc, queue, fallbackCount>>
        /\ Among(queue') = Among(queue)
    BY <1>3 DEF Log, Among
  <2>2. Types' /\ Counted'
    BY <1>2, <2>1 DEF IInv, Types, Counted, InFallback
  <2>3. Stages'
    BY <1>2, <1>3, <2>1 DEF IInv, Stages
  <2>4. OnePlace' /\ NothingVanishes'
    BY <1>2, <2>1 DEF IInv, OnePlace, NothingVanishes, StoredOnce
  <2> QED  BY <2>2, <2>3, <2>4 DEF IInv
<1>4. CASE ~closed /\ Len(queue) < Buffer
  <2>1. /\ pc' = [pc EXCEPT ![e] = "logged"]
        /\ queue' = Append(queue, e) /\ UNCHANGED <<fallbackCount, main>>
    BY <1>4 DEF Log
  <2>2. /\ queue' \in Seq(Emitters) /\ Len(queue') = Len(queue) + 1
        /\ Among(queue') = Among(queue) \cup {e}
    BY <2>1, AppendFacts DEF IInv, Types
  <2>3. \A i, j \in 1..Len(queue') : queue'[i] = queue'[j] => i = j
    BY <1>1, <2>1, AppendDistinct DEF IInv, Types, OnePlace
  <2>4. Types'
    BY <1>1, <1>2, <1>4, <2>1, <2>2, BufferAssumption DEF IInv, Types
  <2>5. Counted'
    <3>1. InFallback' = InFallback
      BY <1>1, <2>1 DEF IInv, Types, InFallback
    <3> QED  BY <1>2, <2>1, <3>1 DEF IInv, Counted
  <2>6. Stages'
    <3>1. ~closed' /\ ~workerDone /\ ~workerDone' /\ dbOpen'
      BY <1>2, <1>4 DEF IInv, Stages
    <3>2. \A r \in Requests : pc'[r] \in {pc[r], "logged"}
      BY <2>1 DEF IInv, Types, Emitters
    <3> QED  BY <1>2, <1>4, <2>1, <3>1, <3>2 DEF IInv, Stages
  <2>7. \A d \in Emitters : pc'[d] # "logged" => d # e /\ pc[d] # "logged"
    BY <2>1 DEF IInv, Types
  <2>8. OnePlace'
    BY <1>1, <1>2, <2>2, <2>3, <2>7 DEF IInv, OnePlace, StoredOnce
  <2>9. \A d \in Emitters : pc'[d] = "logged" => d = e \/ pc[d] = "logged"
    BY <2>1 DEF IInv, Types
  <2>10. NothingVanishes'
    BY <1>2, <2>2, <2>9 DEF IInv, NothingVanishes
  <2> QED  BY <2>4, <2>5, <2>6, <2>8, <2>10 DEF IInv
<1>5. CASE ~closed /\ ~(Len(queue) < Buffer)
  <2>1. /\ pc' = [pc EXCEPT ![e] = "fallback"] /\ fallbackCount' = fallbackCount + 1
        /\ UNCHANGED <<queue, main>> /\ Among(queue') = Among(queue)
    BY <1>5 DEF Log, Among
  <2>2. Types'
    BY <1>2, <2>1 DEF IInv, Types
  <2>3. Counted'
    <3>1. InFallback' = InFallback \cup {e} /\ e \notin InFallback
      BY <1>1, <2>1 DEF IInv, Types, InFallback
    <3>2. IsFiniteSet(InFallback') /\ Cardinality(InFallback') = Cardinality(InFallback) + 1
      BY <3>1, FS_AddElement DEF IInv, Counted
    <3>3. Cardinality(InFallback) \in Nat
      BY FS_CardinalityType DEF IInv, Counted
    <3> QED  BY <1>2, <2>1, <3>2, <3>3 DEF IInv, Counted
  <2>4. Stages'
    <3>1. ~closed' /\ ~workerDone' /\ dbOpen'
      BY <1>2, <1>5 DEF IInv, Stages
    <3>2. e \in Requests => main \in {"serving", "draining", "forced"}
      BY <1>1 DEF IInv, Stages
    <3>3. \A r \in Requests : r # e => pc'[r] = pc[r]
      BY <2>1 DEF IInv, Types, Emitters
    <3> QED  BY <1>2, <1>5, <2>1, <3>1, <3>2, <3>3 DEF IInv, Stages
  <2>5. \A d \in Emitters : pc'[d] = "logged" <=> pc[d] = "logged"
    BY <1>1, <2>1 DEF IInv, Types
  <2>6. OnePlace' /\ NothingVanishes'
    BY <1>2, <2>1, <2>5 DEF IInv, OnePlace, NothingVanishes, StoredOnce
  <2> QED  BY <2>2, <2>3, <2>4, <2>6 DEF IInv
<1> QED  BY <1>3, <1>4, <1>5

---------------------------------------------------------------------------
(* Writes to the database. *)

\* What Create does to the table and to the reports: the entry is stored or its
\* error reported, and nothing is stored once the database is closed.
LEMMA CreateFacts ==
    ASSUME IInv, NEW e \in Emitters, NEW failed \in BOOLEAN, Create(e, failed)
    PROVE  /\ stored' \in Seq(Emitters) /\ reported' \subseteq Emitters
           /\ Among(stored) \subseteq Among(stored') /\ Among(stored') \subseteq Among(stored) \cup {e}
           /\ reported \subseteq reported' /\ e \in Among(stored') \cup reported'
           /\ e \notin Among(stored) => StoredOnce'
<1>1. CASE stored' = Append(stored, e)
  <2>1. stored' \in Seq(Emitters) /\ Among(stored') = Among(stored) \cup {e}
    BY <1>1, AppendFacts DEF IInv, Types
  <2>2. e \notin Among(stored) => StoredOnce'
    BY <1>1, AppendDistinct DEF IInv, Types, OnePlace, StoredOnce
  <2> QED  BY <2>1, <2>2 DEF Create, IInv, Types
<1>2. CASE failed /\ stored' = stored
  BY <1>2 DEF Create, IInv, Types, Among, OnePlace, StoredOnce
<1> QED  BY <1>1, <1>2 DEF Create

\* The fallback counts its entry as dropped exactly if its write failed.
LEMMA FallbackOK == ASSUME IInv, Running, NEW e \in Emitters, Fallback(e) PROVE IInv'
<1>1. PICK failed \in BOOLEAN :
        /\ Create(e, failed)
        /\ droppedCount' = IF failed THEN droppedCount + 1 ELSE droppedCount
  BY DEF Fallback
<1>2. e \notin Among(queue) /\ e # writing /\ e \notin Among(stored)
  BY DEF Fallback, IInv, OnePlace
<1>3. /\ pc' = [pc EXCEPT ![e] = "logged"] /\ pc[e] = "fallback"
      /\ UNCHANGED <<queue, closed, writing, workerDone, fallbackCount, dbOpen, main>>
  BY DEF Fallback
<1>4. /\ stored' \in Seq(Emitters) /\ reported' \subseteq Emitters
      /\ Among(stored) \subseteq Among(stored') /\ Among(stored') \subseteq Among(stored) \cup {e}
      /\ reported \subseteq reported' /\ e \in Among(stored') \cup reported' /\ StoredOnce'
  BY <1>1, <1>2, CreateFacts
<1>5. Types'
  BY <1>3, <1>4 DEF IInv, Types
<1>6. Counted'
  <2>1. InFallback' = InFallback \ {e} /\ e \in InFallback
    BY <1>3 DEF IInv, Types, InFallback
  <2>2. IsFiniteSet(InFallback') /\ Cardinality(InFallback') = Cardinality(InFallback) - 1
    BY <2>1, FS_RemoveElement DEF IInv, Counted
  <2>3. Cardinality(InFallback) \in Nat
    BY FS_CardinalityType DEF IInv, Counted
  <2> QED  BY <1>1, <1>3, <2>2, <2>3 DEF IInv, Counted
<1>7. Stages'
  BY <1>3 DEF IInv, Types, Stages
<1>8. Among(queue') = Among(queue)
  BY <1>3 DEF Among
<1>9. OnePlace'
  BY <1>2, <1>3, <1>4, <1>8 DEF IInv, Types, OnePlace
<1>10. NothingVanishes'
  BY <1>3, <1>4, <1>8 DEF IInv, Types, NothingVanishes
<1> QED  BY <1>5, <1>6, <1>7, <1>9, <1>10 DEF IInv

---------------------------------------------------------------------------
(* The worker. *)

\* Take moves the head of the buffer into the worker's hands.
LEMMA TakeOK == ASSUME IInv, Take PROVE IInv'
<1>1. /\ queue \in Seq(Emitters) /\ queue # <<>> /\ writing = NoEntry
      /\ writing' = Head(queue) /\ queue' = Tail(queue)
      /\ UNCHANGED <<pc, closed, workerDone, stored, reported, fallbackCount,
                     droppedCount, dbOpen, main>>
      /\ ~workerDone /\ Among(stored') = Among(stored)
  BY DEF Take, IInv, Types, Among
<1>2. /\ writing' \in Emitters /\ queue' \in Seq(Emitters) /\ Len(queue') = Len(queue) - 1
      /\ Among(queue) = Among(queue') \cup {writing'} /\ writing' \notin Among(queue')
      /\ \A i, j \in 1..Len(queue') : queue'[i] = queue'[j] => i = j
  BY <1>1, TailFacts DEF IInv, OnePlace
<1>3. Types'
  BY <1>1, <1>2, LenProperties, BufferAssumption DEF IInv, Types
<1>4. Counted'
  BY <1>1 DEF IInv, Counted, InFallback
<1>5. Stages'
  BY <1>1 DEF IInv, Stages
<1>6. OnePlace'
  BY <1>1, <1>2 DEF IInv, OnePlace, StoredOnce
<1>7. NothingVanishes'
  BY <1>1, <1>2, EmitterAssumption DEF IInv, NothingVanishes, Emitters
<1> QED  BY <1>3, <1>4, <1>5, <1>6, <1>7 DEF IInv

\* Persist settles the entry the worker holds: a row, a report, or both.
LEMMA PersistOK == ASSUME IInv, Persist PROVE IInv'
<1>1. /\ writing \in Emitters /\ writing' = NoEntry /\ Among(queue') = Among(queue)
      /\ UNCHANGED <<pc, queue, closed, workerDone, fallbackCount, droppedCount, dbOpen, main>>
  BY DEF Persist, IInv, Types, Among
<1>2. PICK failed \in BOOLEAN : Create(writing, failed)
  BY DEF Persist
<1>3. writing \notin Among(stored)
  BY DEF IInv, OnePlace
<1>4. /\ stored' \in Seq(Emitters) /\ reported' \subseteq Emitters
      /\ Among(stored) \subseteq Among(stored') /\ Among(stored') \subseteq Among(stored) \cup {writing}
      /\ reported \subseteq reported' /\ writing \in Among(stored') \cup reported' /\ StoredOnce'
  BY <1>1, <1>2, <1>3, CreateFacts
<1>5. Types'
  BY <1>1, <1>4 DEF IInv, Types
<1>6. Counted'
  BY <1>1 DEF IInv, Counted, InFallback
<1>7. Stages'
  BY <1>1 DEF IInv, Stages
<1>8. NoEntry \notin Emitters /\ Among(queue) \subseteq Emitters /\ Among(stored') \subseteq Emitters
  BY <1>4, EmitterAssumption, ElementOfSeq DEF IInv, Types, Among, Emitters
<1>9. OnePlace'
  <2>1. \A e \in Emitters : pc'[e] # "logged" =>
           e \notin Among(queue') /\ e # writing' /\ e \notin Among(stored')
    BY <1>1, <1>4, <1>8 DEF IInv, OnePlace
  <2>2. writing' \notin Among(queue')
    BY <1>1, <1>8
  <2>3. \A e \in Among(stored') : e \notin Among(queue') /\ e # writing'
    BY <1>1, <1>4, <1>8 DEF IInv, OnePlace
  <2>4. \A i, j \in 1..Len(queue') : queue'[i] = queue'[j] => i = j
    BY <1>1 DEF IInv, OnePlace
  <2> QED  BY <1>4, <2>1, <2>2, <2>3, <2>4 DEF OnePlace
<1>10. NothingVanishes'
  BY <1>1, <1>4 DEF IInv, NothingVanishes
<1> QED  BY <1>5, <1>6, <1>7, <1>9, <1>10 DEF IInv

---------------------------------------------------------------------------
(* The shutdown, and the whole. *)

\* A step that changes only flags and the stage keeps the entries in their places.
LEMMA PlacesKept ==
    ASSUME IInv, UNCHANGED <<pc, queue, writing, stored, reported, fallbackCount, droppedCount>>,
           closed' \in BOOLEAN, workerDone' \in BOOLEAN, dbOpen' \in BOOLEAN
    PROVE  Types' /\ Counted' /\ OnePlace' /\ NothingVanishes'
<1>1. Among(queue') = Among(queue) /\ Among(stored') = Among(stored)
  BY DEF Among
<1> QED
  BY <1>1 DEF IInv, Types, Counted, InFallback, OnePlace, StoredOnce, NothingVanishes

\* Stop ends the worker on a closed and empty channel.
LEMMA StopOK == ASSUME IInv, Stop PROVE IInv'
<1>1. Types' /\ Counted' /\ OnePlace' /\ NothingVanishes'
  BY PlacesKept DEF Stop, IInv, Types
<1>2. Stages'
  BY DEF Stop, IInv, Stages
<1> QED  BY <1>1, <1>2 DEF IInv

\* The signal and each step of shutdown take the process to its next stage.
LEMMA ShutdownOK == ASSUME IInv, Signal \/ Shutdown PROVE IInv'
<1>1. Types' /\ Counted' /\ OnePlace' /\ NothingVanishes'
  BY PlacesKept
     DEF Signal, Shutdown, HTTPDrained, HTTPTimeout, StopCleanup, CloseQueue, AwaitWorker,
         CloseDB, Exit, Proceed, IInv, Types
<1>2. Stages'
  <2> USE DEF IInv, Stages, Proceed
  <2>1. CASE Signal  BY <2>1 DEF Signal
  <2>2. CASE HTTPDrained  BY <2>2 DEF HTTPDrained
  <2>3. CASE HTTPTimeout  BY <2>3 DEF HTTPTimeout
  <2>4. CASE StopCleanup  BY <2>4 DEF StopCleanup
  <2>5. CASE CloseQueue  BY <2>5 DEF CloseQueue
  <2>6. CASE AwaitWorker  BY <2>6 DEF AwaitWorker
  <2>7. CASE CloseDB  BY <2>7 DEF CloseDB
  <2>8. CASE Exit  BY <2>8 DEF Exit
  <2> QED  BY <2>1, <2>2, <2>3, <2>4, <2>5, <2>6, <2>7, <2>8 DEF Shutdown
<1> QED  BY <1>1, <1>2 DEF IInv

\* The process starts with nothing emitted and everything open.
LEMMA InitOK == Init => IInv
<1> SUFFICES ASSUME Init PROVE IInv
  OBVIOUS
<1>1. Among(queue) = {} /\ Among(stored) = {} /\ <<>> \in Seq(Emitters) /\ Len(<<>>) = 0
  BY AmongEmpty, EmptySeq DEF Init
<1>2. InFallback = {} /\ IsFiniteSet(InFallback) /\ Cardinality(InFallback) = 0
  <2>1. InFallback = {}
    BY DEF Init, InFallback
  <2> QED  BY <2>1, FS_EmptySet
<1>3. Types
  <2>1. queue \in Seq(Emitters) /\ Len(queue) = 0 /\ stored \in Seq(Emitters)
    BY <1>1 DEF Init
  <2>2. pc \in [Emitters -> {"idle", "working", "fallback", "logged", "quiet"}]
    BY DEF Init
  <2>3. Len(queue) <= Buffer
    BY <2>1, BufferAssumption
  <2> QED  BY <2>1, <2>2, <2>3 DEF Init, Types
<1>4. Counted
  BY <1>2 DEF Init, Counted
<1>5. Stages
  BY DEF Init, Stages
<1>6. OnePlace
  BY <1>1, EmitterAssumption DEF Init, OnePlace, StoredOnce, Emitters
<1>7. NothingVanishes
  BY DEF Init, NothingVanishes
<1> QED  BY <1>3, <1>4, <1>5, <1>6, <1>7 DEF IInv

\* Every step keeps the invariant.
LEMMA NextOK == IInv /\ [Next]_vars => IInv'
<1> SUFFICES ASSUME IInv, [Next]_vars PROVE IInv'
  OBVIOUS
<1>1. CASE Running /\ ((\E r \in Requests : Accept(r)) \/ Tick \/ StopPurge)
  BY <1>1, ArriveOK DEF Emitters
<1>2. ASSUME NEW e \in Emitters, Handle(e) PROVE IInv'
  BY <1>2, ArriveOK, LogOK, FallbackOK DEF Handle
<1>3. CASE Worker
  BY <1>3, TakeOK, PersistOK, StopOK DEF Worker
<1>4. CASE (Running /\ Signal) \/ Shutdown
  BY <1>4, ShutdownOK
<1>5. CASE Finished \/ UNCHANGED vars
  <2>1. UNCHANGED vars
    BY <1>5 DEF Finished
  <2>2. Types' /\ Counted' /\ OnePlace' /\ NothingVanishes'
    BY <2>1, PlacesKept DEF vars, IInv, Types
  <2>3. Stages'
    BY <2>1 DEF vars, IInv, Stages
  <2> QED  BY <2>2, <2>3 DEF IInv
<1> QED  BY <1>1, <1>2, <1>3, <1>4, <1>5 DEF Next

\* What is closed, who may still write, and where every entry is: the facts about
\* log, its worker and shutdown from which the other theorems follow.
THEOREM InductiveInvariant == Spec => []IInv
BY InitOK, NextOK, PTL DEF Spec

\* The buffer never exceeds its size, and a drop is counted only after its fallback.
THEOREM TypeCorrect == Spec => []TypeOK
<1>1. IInv => TypeOK
  <2> SUFFICES ASSUME IInv PROVE TypeOK
    OBVIOUS
  <2>1. Cardinality(InFallback) \in Nat
    BY FS_CardinalityType DEF IInv, Counted
  <2>2. droppedCount \in 0..fallbackCount /\ fallbackCount \in Nat
    BY <2>1 DEF IInv, Counted
  <2> QED  BY <2>2 DEF IInv, Types, TypeOK
<1> QED  BY <1>1, InductiveInvariant, PTL

\* No entry that log took over is lost without a report, however the full buffer, the
\* failing database and the shutdown interleave.
THEOREM NoSilentLoss == Spec => []NothingVanishes
BY InductiveInvariant, PTL DEF IInv

\* No entry gets two rows in audit_logs, although a reported write may have left one.
THEOREM NoDuplicateRow == Spec => []StoredOnce
BY InductiveInvariant, PTL DEF IInv, OnePlace

\* While a request or the worker may still write, channel and database are open.
THEOREM ClosedInOrder == Spec => []NoWriteAfterClose
<1>1. IInv => NoWriteAfterClose
  BY DEF IInv, Stages, NoWriteAfterClose
<1> QED  BY <1>1, InductiveInvariant, PTL

\* An orderly exit has drained the buffer: every entry of a request was written or
\* reported before the database is closed.
THEOREM DrainedBeforeExit == Spec => []DrainedOnExit
<1>1. IInv => DrainedOnExit
  <2> SUFFICES ASSUME IInv, main \in {"closeDB", "exiting", "exited"}
               PROVE  /\ queue = <<>> /\ writing = NoEntry
                      /\ \A r \in Requests : pc[r] = "logged" => r \in Among(stored) \cup reported
    BY DEF DrainedOnExit
  <2>1. queue = <<>> /\ writing = NoEntry
    BY DEF IInv, Stages
  <2>2. Among(queue) = {}
    BY <2>1, AmongEmpty
  <2>3. \A r \in Requests : r \in Emitters /\ r # NoEntry
    BY EmitterAssumption DEF Emitters
  <2> QED  BY <2>1, <2>2, <2>3 DEF IInv, NothingVanishes
<1> QED  BY <1>1, InductiveInvariant, PTL
=============================================================================
