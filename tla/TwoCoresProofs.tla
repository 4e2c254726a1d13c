--------------------------- MODULE TwoCoresProofs ---------------------------
(***************************************************************************)
(* For FIFOs of every depth: no bus cycle is lost unnoticed, and only slow *)
(* commands count as overflows.                                            *)
(***************************************************************************)
EXTENDS TwoCores, TLAPS

Labels == {"frame", "check", "wait", "pop", "slow", "load", "store", "test", "draw"} \cup Wiping

TypeInv ==
  /\ fifo \in Seq(Words \cup {None})
  /\ Len(fifo) <= FifoDepth
  /\ sampling \in Words \cup {None} /\ stalled \in Words \cup {None}
  /\ bus_overflow_counter \in 0 .. MaxOverflow
  /\ pc \in [Cores -> Labels]
  /\ behind \in BOOLEAN /\ unnoticed \in BOOLEAN /\ slow \in BOOLEAN

\* The PIO waits only for a full FIFO. A cycle that was lost leaves it full, as
\* the one that waited fills it up again; while core 1 is about to read, it waits
\* still.
LossInv ==
  /\ stalled # None => Len(fifo) = FifoDepth
  /\ unnoticed => Len(fifo) = FifoDepth
  /\ unnoticed /\ pc[1] \in {"wait", "pop"} => stalled # None

Occupied == Len(fifo) + (IF sampling = None THEN 0 ELSE 1)

\* A core 1 that keeps up leaves room; without a slow command it falls behind only
\* in the menu, which it leaves with a wiped FIFO.
RoomInv ==
  /\ ~ behind => Occupied <= Backlog
  /\ behind /\ ~ slow => pc[1] \in {"draw"} \cup Wiping

CaptureInv == TypeInv /\ LossInv /\ RoomInv /\ StatisticsClean

USE TwoCoresAssumption

-----------------------------------------------------------------------------
\* The initial states.
LEMMA InitCapture == Init => CaptureInv
<1> SUFFICES ASSUME Init PROVE CaptureInv
  OBVIOUS
<1>1. fifo \in Seq(Words \cup {None}) /\ Len(fifo) = 0
  BY DEF Init
<1>2. pc \in [Cores -> Labels] /\ pc[1] = "check"
  BY DEF Init, Cores, Labels
<1>3. TypeInv
  <2>1. Len(fifo) <= FifoDepth
    BY <1>1
  <2>2. bus_overflow_counter \in 0 .. MaxOverflow
    BY DEF Init
  <2> QED
    BY <1>1, <1>2, <2>1, <2>2, Zenon DEF Init, TypeInv
<1>4. LossInv
  BY DEF Init, LossInv
<1>5. RoomInv
  BY <1>1 DEF Init, RoomInv, Occupied
<1>6. StatisticsClean
  BY DEF Init, StatisticsClean
<1> QED
  BY <1>3, <1>4, <1>5, <1>6 DEF CaptureInv

\* What is known of the length of the two sequences of which entries are taken and to
\* which they are added.
LEMMA TailEntries ==
  ASSUME NEW S, NEW s \in Seq(S), s # << >>
  PROVE  /\ Tail(s) \in Seq(S) /\ Tail(s) # s
         /\ Len(Tail(s)) = Len(s) - 1 /\ Len(Tail(s)) + 1 = Len(s)
<1>1. Tail(s) \in Seq(S) /\ Len(Tail(s)) = Len(s) - 1
  OBVIOUS
<1>2. Len(s) \in Nat
  OBVIOUS
<1>3. Tail(s) = s => Len(s) = Len(s) - 1
  BY <1>1
<1>4. Tail(s) # s
  BY <1>2, <1>3
<1>5. Len(Tail(s)) + 1 = Len(s)
  BY <1>1, <1>2
<1> QED
  BY <1>1, <1>4, <1>5

LEMMA AppendEntry ==
  ASSUME NEW S, NEW s \in Seq(S), NEW e \in S
  PROVE  Append(s, e) \in Seq(S) /\ Len(Append(s, e)) = Len(s) + 1
OBVIOUS

\* Reading takes one entry, and what the PIO waits with takes its place.
LEMMA GetEntry ==
  ASSUME CaptureInv, NEW w \in Words, Get(w)
  PROVE  /\ fifo' \in Seq(Words \cup {None})
         /\ Len(fifo') <= FifoDepth
         /\ stalled' = None /\ sampling' = sampling
         /\ stalled # None => Len(fifo') = FifoDepth
         /\ stalled = None => Len(fifo') <= Len(fifo)
<1>1. /\ fifo \in Seq(Words \cup {None}) /\ Len(fifo) <= FifoDepth /\ Len(fifo) \in Nat
      /\ stalled \in Words \cup {None}
      /\ stalled # None => Len(fifo) = FifoDepth
  BY DEF CaptureInv, TypeInv, LossInv
<1>2. stalled' = None /\ sampling' = sampling
  BY DEF Get
<1>3. CASE fifo = << >>
  <2>1. Len(fifo) = 0
    BY <1>3
  <2>2. stalled = None
    BY <1>1, <2>1
  <2>3. fifo' = << >>
    BY <1>3 DEF Get, Refill
  <2> QED
    BY <1>1, <1>2, <2>1, <2>2, <2>3
<1>4. CASE fifo # << >>
  <2>1. /\ Tail(fifo) \in Seq(Words \cup {None}) /\ Len(Tail(fifo)) = Len(fifo) - 1
        /\ Tail(fifo) # fifo /\ Len(Tail(fifo)) + 1 = Len(fifo)
    BY <1>1, <1>4, TailEntries
  <2>2. fifo' = IF stalled = None THEN Tail(fifo) ELSE Append(Tail(fifo), stalled)
    BY <1>4, <2>1 DEF Get, Refill
  <2>3. CASE stalled = None
    <3>1. fifo' = Tail(fifo)
      BY <2>2, <2>3
    <3>2. fifo' \in Seq(Words \cup {None}) /\ Len(fifo') = Len(fifo) - 1
      BY <2>1, <3>1, Zenon
    <3>3. Len(fifo') <= FifoDepth /\ Len(fifo') <= Len(fifo)
      BY <1>1, <3>2
    <3> QED
      BY <1>2, <2>3, <3>2, <3>3
  <2>4. CASE stalled # None
    <3>1. /\ Append(Tail(fifo), stalled) \in Seq(Words \cup {None})
          /\ Len(Append(Tail(fifo), stalled)) = Len(Tail(fifo)) + 1
      BY <1>1, <2>1, AppendEntry
    <3>2. fifo' = Append(Tail(fifo), stalled)
      BY <2>2, <2>4
    <3>3. fifo' \in Seq(Words \cup {None}) /\ Len(fifo') = Len(Tail(fifo)) + 1
      BY <3>1, <3>2, Zenon
    <3>4. Len(fifo') = Len(fifo)
      BY <2>1, <3>3, Zenon
    <3> QED
      BY <1>1, <1>2, <2>4, <3>3, <3>4
  <2> QED
    BY <2>3, <2>4
<1> QED
  BY <1>3, <1>4

-----------------------------------------------------------------------------
\* A core goes from one label to the next, and the other stays where it is.
LEMMA CoreGoes ==
  ASSUME TypeInv, NEW c \in Cores, NEW label \in Labels, Goto(c, label)
  PROVE  pc' \in [Cores -> Labels] /\ pc'[c] = label /\ \A d \in Cores \ {c} : pc'[d] = pc[d]
BY DEF TypeInv, Goto

\* A step that touches neither the FIFO nor what was noticed: core 1 gets nowhere near
\* a read, and is behind only where it may be.
LEMMA ControlStep ==
  ASSUME CaptureInv,
         UNCHANGED <<capture, bus_overflow_counter, unnoticed, slow>>,
         pc' \in [Cores -> Labels],
         pc'[1] \in {"wait", "pop"} => pc[1] \in {"wait", "pop"},
         behind' \in BOOLEAN,
         ~ behind' => Occupied <= Backlog,
         behind' /\ ~ slow => pc'[1] \in {"draw"} \cup Wiping
  PROVE  CaptureInv'
<1>1. /\ fifo' = fifo /\ sampling' = sampling /\ stalled' = stalled /\ slow' = slow
      /\ bus_overflow_counter' = bus_overflow_counter /\ unnoticed' = unnoticed
  BY DEF capture
<1>2. Occupied' = Occupied
  BY <1>1 DEF Occupied
<1>3. TypeInv'
  BY <1>1, Zenon DEF CaptureInv, TypeInv
<1>4. LossInv'
  BY <1>1 DEF CaptureInv, LossInv
<1>5. RoomInv'
  BY <1>1, <1>2 DEF RoomInv
<1>6. StatisticsClean'
  BY <1>1 DEF CaptureInv, StatisticsClean
<1> QED
  BY <1>3, <1>4, <1>5, <1>6 DEF CaptureInv

\* A step of one core that keeps behind as it is.
LEMMA PlainStep ==
  ASSUME CaptureInv, NEW c \in Cores, NEW label \in Labels, Goto(c, label),
         UNCHANGED <<capture, bus_overflow_counter, history>>,
         c = 1 => /\ label \in {"wait", "pop"} => pc[1] \in {"wait", "pop"}
                  /\ pc[1] \in {"draw"} \cup Wiping => label \in {"draw"} \cup Wiping \/ slow
                                                        \/ ~ behind
  PROVE  CaptureInv'
<1>1. TypeInv /\ RoomInv
  BY DEF CaptureInv
<1>2. pc' \in [Cores -> Labels] /\ pc'[c] = label /\ \A d \in Cores \ {c} : pc'[d] = pc[d]
  BY <1>1, CoreGoes
<1>3. UNCHANGED <<capture, bus_overflow_counter, unnoticed, slow>> /\ UNCHANGED behind
  BY DEF history
<1>4. CASE c = 1
  <2>1. pc'[1] = label
    BY <1>2, <1>4
  <2>2. behind' /\ ~ slow => pc'[1] \in {"draw"} \cup Wiping
    BY <1>1, <1>3, <1>4, <2>1, Zenon DEF RoomInv
  <2>3. pc'[1] \in {"wait", "pop"} => pc[1] \in {"wait", "pop"}
    BY <1>4, <2>1, Zenon
  <2>4. behind' \in BOOLEAN /\ (~ behind' => Occupied <= Backlog)
    BY <1>1, <1>3, Zenon DEF TypeInv, RoomInv
  <2> QED
    BY <1>2, <1>3, <2>2, <2>3, <2>4, ControlStep
<1>5. CASE c = 0
  <2>1. pc'[1] = pc[1]
    BY <1>2, <1>5 DEF Cores
  <2>2. behind' /\ ~ slow => pc'[1] \in {"draw"} \cup Wiping
    BY <1>1, <1>3, <2>1, Zenon DEF RoomInv
  <2>3. behind' \in BOOLEAN /\ (~ behind' => Occupied <= Backlog)
    BY <1>1, <1>3, Zenon DEF TypeInv, RoomInv
  <2> QED
    BY <1>2, <1>3, <2>1, <2>2, <2>3, ControlStep
<1> QED
  BY <1>4, <1>5 DEF Cores

-----------------------------------------------------------------------------
\* The steps of the bus. One that begins while the PIO waits is lost, and the FIFO
\* is full.
LEMMA RiseStep == ASSUME CaptureInv, NEW w \in Words, Rise(w) PROVE CaptureInv'
<1>1. /\ fifo' = fifo /\ stalled' = stalled /\ slow' = slow /\ behind' = behind /\ pc' = pc
      /\ bus_overflow_counter' = bus_overflow_counter /\ sampling = None
  BY DEF Rise
<1>2. \/ sampling' = w /\ unnoticed' = unnoticed /\ stalled = None
      \/ unnoticed' = TRUE /\ sampling' = sampling /\ stalled # None
  BY DEF Rise
<1>3. TypeInv'
  BY <1>1, <1>2 DEF CaptureInv, TypeInv
<1>4. LossInv'
  BY <1>1, <1>2 DEF CaptureInv, LossInv
<1>5. RoomInv'
  <2>1. ~ behind => Len(fifo) < Backlog
    BY DEF Rise, Paced
  <2>2. Len(fifo) \in Nat
    BY DEF CaptureInv, TypeInv
  <2>3. Occupied' <= Len(fifo) + 1
    BY <1>1, <2>2 DEF Occupied
  <2>4. ~ behind => Occupied' <= Backlog
    BY <1>1, <2>1, <2>2 DEF Occupied
  <2> QED
    BY <1>1, <2>4 DEF CaptureInv, RoomInv
<1>6. StatisticsClean'
  BY <1>1 DEF CaptureInv, StatisticsClean
<1> QED
  BY <1>3, <1>4, <1>5, <1>6 DEF CaptureInv

LEMMA PushStep == ASSUME CaptureInv, Push PROVE CaptureInv'
<1>1. /\ sampling' = None /\ sampling # None /\ slow' = slow /\ behind' = behind /\ pc' = pc
      /\ bus_overflow_counter' = bus_overflow_counter /\ unnoticed' = unnoticed
  BY DEF Push, history
<1>2. /\ fifo \in Seq(Words \cup {None}) /\ Len(fifo) \in Nat /\ Len(fifo) <= FifoDepth
      /\ sampling \in Words \cup {None}
  BY DEF CaptureInv, TypeInv
<1>3. CASE Len(fifo) < FifoDepth
  <2>1. fifo' = Append(fifo, sampling) /\ stalled' = stalled
    BY <1>3 DEF Push
  <2>2. /\ Append(fifo, sampling) \in Seq(Words \cup {None})
        /\ Len(Append(fifo, sampling)) = Len(fifo) + 1
    BY <1>2, AppendEntry
  <2>3. fifo' \in Seq(Words \cup {None}) /\ Len(fifo') = Len(fifo) + 1
    BY <2>1, <2>2, Zenon
  <2>4. TypeInv'
    BY <1>1, <1>2, <1>3, <2>1, <2>3 DEF CaptureInv, TypeInv
  <2>5. LossInv'
    BY <1>1, <1>2, <1>3, <2>1, <2>3 DEF CaptureInv, LossInv
  <2>6. Occupied' = Occupied
    BY <1>1, <1>2, <2>3 DEF Occupied
  <2>7. RoomInv'
    BY <1>1, <2>6 DEF CaptureInv, RoomInv
  <2>8. StatisticsClean'
    BY <1>1 DEF CaptureInv, StatisticsClean
  <2> QED
    BY <2>4, <2>5, <2>7, <2>8 DEF CaptureInv
<1>4. CASE ~ Len(fifo) < FifoDepth
  <2>1. stalled' = sampling /\ fifo' = fifo
    BY <1>4 DEF Push
  <2>2. Len(fifo) = FifoDepth
    BY <1>2, <1>4
  <2>3. behind
    BY <1>1, <1>2, <2>2 DEF CaptureInv, RoomInv, Occupied
  <2>4. TypeInv'
    BY <1>1, <1>2, <2>1 DEF CaptureInv, TypeInv
  <2>5. LossInv'
    BY <1>1, <2>1, <2>2 DEF CaptureInv, LossInv
  <2>6. RoomInv'
    BY <1>1, <2>3 DEF CaptureInv, RoomInv
  <2>7. StatisticsClean'
    BY <1>1 DEF CaptureInv, StatisticsClean
  <2> QED
    BY <2>4, <2>5, <2>6, <2>7 DEF CaptureInv
<1> QED
  BY <1>3, <1>4

\* Core 1 looks at the FIFO: a full one means that it was behind, and not in the menu.
LEMMA CheckStep == ASSUME CaptureInv, Check PROVE CaptureInv'
<1>1. /\ fifo' = fifo /\ sampling' = sampling /\ stalled' = stalled /\ slow' = slow
      /\ unnoticed' = FALSE /\ behind' = (behind /\ fifo # << >>) /\ pc[1] = "check"
      /\ bus_overflow_counter' =
           IF Len(fifo) = FifoDepth /\ bus_overflow_counter < MaxOverflow
           THEN bus_overflow_counter + 1 ELSE bus_overflow_counter
  BY DEF Check, capture
<1>2. TypeInv /\ Len(fifo) \in Nat
  BY DEF CaptureInv, TypeInv
<1>3. pc' \in [Cores -> Labels] /\ pc'[1] = "wait"
  <2>1. Goto(1, "wait")
    BY DEF Check
  <2> QED
    BY <1>2, <2>1, CoreGoes DEF Cores, Labels
<1>4. behind => slow
  BY <1>1 DEF CaptureInv, RoomInv, Wiping
<1>5. TypeInv'
  <2>1. bus_overflow_counter' \in 0 .. MaxOverflow
    BY <1>1, <1>2 DEF TypeInv
  <2> QED
    BY <1>1, <1>2, <1>3, <2>1 DEF TypeInv
<1>6. LossInv'
  BY <1>1 DEF CaptureInv, LossInv
<1>7. RoomInv'
  <2>1. fifo = << >> => Occupied' <= Backlog
    <3>1. fifo = << >> => Len(fifo) = 0
      OBVIOUS
    <3> QED
      BY <1>1, <3>1 DEF Occupied
  <2>2. Occupied' = Occupied
    BY <1>1 DEF Occupied
  <2> QED
    BY <1>1, <1>4, <2>1, <2>2 DEF CaptureInv, RoomInv
<1>8. StatisticsClean'
  <2>1. Len(fifo) = FifoDepth => behind
    BY <1>2 DEF CaptureInv, RoomInv, Occupied
  <2> QED
    BY <1>1, <1>4, <2>1 DEF CaptureInv, StatisticsClean
<1> QED
  BY <1>5, <1>6, <1>7, <1>8 DEF CaptureInv

-----------------------------------------------------------------------------
\* The steps that take an entry. Of the one that core 1 handles, that the PIO waited
\* since it was lost; a wipe hides it.
LEMMA ReadStep == ASSUME CaptureInv, Read PROVE CaptureInv'
<1> DEFINE next(w) == CASE w = "open" -> "load" [] w \in {"key", "esc"} -> "test"
                        [] w = "save" -> "slow" [] w = "other" -> "check"
<1>1. PICK w \in Words :
        /\ Get(w)
        /\ Goto(1, next(w))
        /\ behind' = (behind \/ w = "save") /\ slow' = (slow \/ w = "save")
  BY DEF Read
<1>2. /\ pc[1] = "pop" /\ bus_overflow_counter' = bus_overflow_counter
      /\ unnoticed' = unnoticed
  BY DEF Read
<1>3. TypeInv /\ LossInv /\ RoomInv /\ Len(fifo) \in Nat
  BY DEF CaptureInv, TypeInv
<1>4. next(w) \in {"load", "test", "slow", "check"}
  BY <1>1 DEF Words
<1>5. pc' \in [Cores -> Labels] /\ pc'[1] \notin {"wait", "pop"}
  <2> HIDE DEF next
  <2>1. next(w) \in Labels /\ 1 \in Cores
    BY <1>4 DEF Labels, Cores
  <2>2. pc' \in [Cores -> Labels] /\ pc'[1] = next(w)
    BY <1>1, <1>3, <2>1, CoreGoes
  <2> QED
    BY <1>4, <2>2
<1>6. /\ fifo' \in Seq(Words \cup {None}) /\ Len(fifo') <= FifoDepth /\ Len(fifo') \in Nat
      /\ stalled' = None /\ sampling' = sampling
      /\ stalled # None => Len(fifo') = FifoDepth
      /\ stalled = None => Len(fifo') <= Len(fifo)
  BY <1>1, GetEntry
<1>7. TypeInv'
  BY <1>1, <1>2, <1>3, <1>5, <1>6 DEF TypeInv
<1>8. LossInv'
  BY <1>2, <1>3, <1>5, <1>6 DEF LossInv
<1>9. RoomInv'
  <2>1. behind => slow
    BY <1>2, <1>3 DEF RoomInv, Wiping
  <2>2. ~ behind => stalled = None
    BY <1>3 DEF TypeInv, LossInv, RoomInv, Occupied
  <2>3. ~ behind => Occupied' <= Backlog
    BY <1>3, <1>6, <2>2 DEF RoomInv, Occupied
  <2> QED
    BY <1>1, <2>1, <2>3 DEF RoomInv
<1>10. StatisticsClean'
  BY <1>1, <1>2 DEF CaptureInv, StatisticsClean
<1> QED
  BY <1>7, <1>8, <1>9, <1>10 DEF CaptureInv

LEMMA WipeReadStep == ASSUME CaptureInv, NEW c \in Cores, WipeRead(c) PROVE CaptureInv'
<1>1. PICK w \in Words : Get(w)
  BY DEF WipeRead
<1>2. /\ pc[c] = "wipe_pop" /\ Goto(c, "wipe") /\ unnoticed' = FALSE
      /\ bus_overflow_counter' = bus_overflow_counter /\ behind' = behind /\ slow' = slow
  BY DEF WipeRead
<1>3. TypeInv /\ LossInv /\ RoomInv /\ Len(fifo) \in Nat
  BY DEF CaptureInv, TypeInv
<1>4. /\ pc' \in [Cores -> Labels] /\ pc'[c] = "wipe"
      /\ \A d \in Cores \ {c} : pc'[d] = pc[d]
  BY <1>2, <1>3, CoreGoes DEF Labels, Wiping
<1>5. /\ fifo' \in Seq(Words \cup {None}) /\ Len(fifo') <= FifoDepth /\ Len(fifo') \in Nat
      /\ stalled' = None /\ sampling' = sampling
      /\ stalled # None => Len(fifo') = FifoDepth
      /\ stalled = None => Len(fifo') <= Len(fifo)
  BY <1>1, GetEntry
<1>6. TypeInv'
  BY <1>2, <1>3, <1>4, <1>5 DEF TypeInv
<1>7. LossInv'
  BY <1>2, <1>5 DEF LossInv
<1>8. RoomInv'
  <2>1. ~ behind => stalled = None
    BY <1>3 DEF TypeInv, LossInv, RoomInv, Occupied
  <2>2. ~ behind => Occupied' <= Backlog
    BY <1>3, <1>5, <2>1 DEF RoomInv, Occupied
  <2>3. pc[1] \in {"draw"} \cup Wiping => pc'[1] \in {"draw"} \cup Wiping
    BY <1>4 DEF Cores, Wiping
  <2> QED
    BY <1>2, <1>3, <2>2, <2>3 DEF RoomInv
<1>9. StatisticsClean'
  BY <1>2 DEF CaptureInv, StatisticsClean
<1> QED
  BY <1>6, <1>7, <1>8, <1>9 DEF CaptureInv

-----------------------------------------------------------------------------
\* The steps in which core 1 may fall behind, to draw, and has caught up, when it wiped.
LEMMA TestStep == ASSUME CaptureInv, NEW c \in Cores, Test(c) PROVE CaptureInv'
<1> DEFINE draws  == "MENU_ENABLE" \in internal_flags
           leaves == c = 1 /\ word = "esc"
           label  == IF ~ draws THEN IF c = 0 THEN "frame" ELSE "check"
                     ELSE IF leaves THEN "load" ELSE "draw"
<1>1. /\ pc[c] = "test" /\ Goto(c, label)
      /\ behind' = (behind \/ (c = 1 /\ draws /\ ~ leaves))
      /\ UNCHANGED <<capture, bus_overflow_counter, unnoticed, slow>>
  BY DEF Test
<1>2. TypeInv /\ RoomInv
  BY DEF CaptureInv
<1>3. label \in Labels /\ label \notin {"wait", "pop"}
  BY DEF Labels
<1>4. c = 1 /\ draws /\ ~ leaves => label = "draw"
  OBVIOUS
<1> HIDE DEF label, draws, leaves
<1>5. pc' \in [Cores -> Labels] /\ pc'[c] = label /\ \A d \in Cores \ {c} : pc'[d] = pc[d]
  BY <1>1, <1>2, <1>3, CoreGoes
<1>6. pc'[1] \in {"wait", "pop"} => pc[1] \in {"wait", "pop"}
  BY <1>3, <1>5 DEF Cores
<1>7. behind' \in BOOLEAN /\ (~ behind' => Occupied <= Backlog)
  BY <1>1, <1>2 DEF TypeInv, RoomInv
<1>8. behind' /\ ~ slow => pc'[1] \in {"draw"} \cup Wiping
  BY <1>1, <1>2, <1>4, <1>5 DEF RoomInv, Cores, Wiping
<1> QED
  BY <1>1, <1>5, <1>6, <1>7, <1>8, ControlStep

LEMMA WipeStep == ASSUME CaptureInv, NEW c \in Cores, Wipe(c) PROVE CaptureInv'
<1> DEFINE label == IF ~ Wiped THEN "wipe_wait" ELSE IF c = 0 THEN "frame" ELSE "check"
<1>1. /\ pc[c] = "wipe" /\ Goto(c, label) /\ behind' = (behind /\ ~ (c = 1 /\ Wiped))
      /\ UNCHANGED <<capture, bus_overflow_counter, unnoticed, slow>>
  BY DEF Wipe
<1>2. TypeInv /\ LossInv /\ RoomInv
  BY DEF CaptureInv
<1>3. label \in Labels /\ label \notin {"wait", "pop"}
  BY DEF Labels, Wiping
<1>4. ~ Wiped => label = "wipe_wait"
  OBVIOUS
<1> HIDE DEF label
<1>5. pc' \in [Cores -> Labels] /\ pc'[c] = label /\ \A d \in Cores \ {c} : pc'[d] = pc[d]
  BY <1>1, <1>2, <1>3, CoreGoes
<1>6. pc'[1] \in {"wait", "pop"} => pc[1] \in {"wait", "pop"}
  BY <1>3, <1>5 DEF Cores
<1>7. Wiped => Occupied <= Backlog
  <2>1. Wiped => Len(fifo) = 0
    BY DEF Wiped
  <2> QED
    BY <2>1 DEF Occupied
<1>8. behind' \in BOOLEAN /\ (~ behind' => Occupied <= Backlog)
  BY <1>1, <1>2, <1>7 DEF TypeInv, RoomInv
<1>9. behind' /\ ~ slow => pc'[1] \in {"draw"} \cup Wiping
  BY <1>1, <1>2, <1>4, <1>5 DEF RoomInv, Cores, Wiping
<1> QED
  BY <1>1, <1>5, <1>6, <1>8, <1>9, ControlStep

-----------------------------------------------------------------------------
\* Every other step of a core only moves it on.
LEMMA StoreStep == ASSUME CaptureInv, NEW c \in Cores, Store(c) PROVE CaptureInv'
<1> DEFINE label == IF c = 1 /\ word = "esc" THEN "wipe" ELSE "test"
<1>1. /\ pc[c] = "store" /\ Goto(c, label)
      /\ UNCHANGED <<capture, bus_overflow_counter, history>>
  BY DEF Store
<1>2. label \in Labels /\ label \notin {"wait", "pop"}
  BY DEF Labels, Wiping
<1> HIDE DEF label
<1> QED
  BY <1>1, <1>2, PlainStep DEF Wiping

LEMMA PlainSteps ==
  ASSUME CaptureInv,
         \/ Wait \/ Command \/ Switch
         \/ \E c \in Cores : Load(c) \/ Draw(c) \/ WipeWait(c)
  PROVE  CaptureInv'
<1>1. CASE Wait
  BY <1>1, PlainStep DEF Wait, Cores, Labels, Wiping
<1>2. CASE Command
  BY <1>2, PlainStep DEF Command, Cores, Labels, Wiping
<1>3. CASE Switch
  BY <1>3, PlainStep DEF Switch, Cores, Labels
<1>4. ASSUME NEW c \in Cores, Load(c) PROVE CaptureInv'
  BY <1>4, PlainStep DEF Load, Labels, Wiping
<1>5. ASSUME NEW c \in Cores, Draw(c) PROVE CaptureInv'
  BY <1>5, PlainStep DEF Draw, Labels, Wiping
<1>6. ASSUME NEW c \in Cores, WipeWait(c) PROVE CaptureInv'
  BY <1>6, PlainStep DEF WipeWait, Labels, Wiping
<1> QED
  BY <1>1, <1>2, <1>3, <1>4, <1>5, <1>6

LEMMA StepCapture == CaptureInv /\ [Next]_vars => CaptureInv'
<1> SUFFICES ASSUME CaptureInv, [Next]_vars PROVE CaptureInv'
  OBVIOUS
<1>1. ASSUME NEW c \in Cores, Common(c) PROVE CaptureInv'
  BY <1>1, PlainSteps, StoreStep, TestStep, WipeStep, WipeReadStep DEF Common
<1>2. CASE Bus
  BY <1>2, RiseStep, PushStep DEF Bus
<1>3. CASE Core1
  BY <1>1, <1>3, CheckStep, ReadStep, PlainSteps DEF Core1, Cores
<1>4. CASE Core0 \/ Switch
  BY <1>1, <1>4, PlainSteps DEF Core0, Cores
<1>5. CASE UNCHANGED vars
  <2>1. UNCHANGED <<capture, bus_overflow_counter, unnoticed, slow>> /\ pc' = pc
        /\ behind' = behind
    BY <1>5 DEF vars, history
  <2> QED
    BY <2>1, ControlStep DEF CaptureInv, TypeInv, RoomInv
<1> QED
  BY <1>2, <1>3, <1>4, <1>5 DEF Next

\* The invariant of the capture.
THEOREM CaptureHolds == Spec => []CaptureInv
BY InitCapture, StepCapture, PTL DEF Spec

\* However the two cores share the FIFO, whatever its depth, a lost bus cycle is seen
\* when abus_loop looks next, unless the FIFO was wiped since (abus.c:64).
THEOREM LossIsNoticed == Spec => []LossNoticed
<1>1. CaptureInv => LossNoticed
  BY DEF CaptureInv, LossInv, LossNoticed
<1> QED
  BY <1>1, CaptureHolds, PTL

\* The menu never adds to the overflow counter, on whichever core it is drawn and
\* however slowly (menu.c:869-873).
THEOREM StatisticsStayClean == Spec => []StatisticsClean
<1>1. CaptureInv => StatisticsClean
  BY DEF CaptureInv
<1> QED
  BY <1>1, CaptureHolds, PTL
=============================================================================
