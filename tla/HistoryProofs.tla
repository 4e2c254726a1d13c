---------------------------- MODULE HistoryProofs ----------------------------
(***************************************************************************)
(* Proofs of the properties of BusHistory, for every set of bus cycles,    *)
(* saved configurations and length of the program.  Each of the firmware's *)
(* recognisers remembers a small integer or a few switches; each proof has *)
(* an invariant that says what that is in terms of the whole history, and  *)
(* shows that one more cycle, or a reset, keeps it true.                   *)
(***************************************************************************)
EXTENDS BusProofs, SequenceTheorems

-----------------------------------------------------------------------------
(* One more cycle in the log.                                              *)

\* `longer' is `cycles' and one cycle more.
Extended(longer, cycles, e) ==
  /\ Len(cycles) \in Nat /\ DOMAIN cycles = 1 .. Len(cycles)
  /\ Len(longer) = Len(cycles) + 1 /\ DOMAIN longer = 1 .. Len(longer)
  /\ \A i \in 1 .. Len(cycles) : longer[i] = cycles[i]
  /\ longer[Len(cycles) + 1] = e

\* A log, among whose resets there is a last one.
LogOK(cycles) ==
  /\ cycles \in Seq({cycles[i] : i \in DOMAIN cycles})
  /\ Resettings(cycles) # {} =>
       \E m \in Resettings(cycles) : \A j \in Resettings(cycles) : j <= m

LEMMA LastResetOK ==
  ASSUME NEW cycles, LogOK(cycles)
  PROVE  /\ LastReset(cycles) \in 0 .. Len(cycles)
         /\ \A j \in Resettings(cycles) : j <= LastReset(cycles)
         /\ LastReset(cycles) # 0 => LastReset(cycles) \in Resettings(cycles)
         /\ Len(cycles) \in Nat /\ DOMAIN cycles = 1 .. Len(cycles)
<1>1. Len(cycles) \in Nat /\ DOMAIN cycles = 1 .. Len(cycles)
  BY LenProperties DEF LogOK
<1>2. CASE Resettings(cycles) = {}
  BY <1>1, <1>2 DEF LastReset
<1>3. CASE Resettings(cycles) # {}
  <2>1. LastReset(cycles) = CHOOSE i \in Resettings(cycles) :
                              \A j \in Resettings(cycles) : j <= i
    BY <1>3 DEF LastReset
  <2>2. /\ LastReset(cycles) \in Resettings(cycles)
        /\ \A j \in Resettings(cycles) : j <= LastReset(cycles)
    BY <1>3, <2>1 DEF LogOK
  <2>3. LastReset(cycles) \in 1 .. Len(cycles)
    BY <1>1, <2>2 DEF Resettings
  <2> QED
    BY <1>1, <2>2, <2>3
<1> QED
  BY <1>2, <1>3

LEMMA AppendExtends ==
  ASSUME NEW cycles, LogOK(cycles), NEW e
  PROVE  /\ Extended(Append(cycles, e), cycles, e)
         /\ Append(cycles, e) \in Seq({Append(cycles, e)[i] : i \in DOMAIN Append(cycles, e)})
<1> DEFINE S == {cycles[i] : i \in DOMAIN cycles}
           T == S \cup {e}
           longer == Append(cycles, e)
<1>1. cycles \in Seq(T) /\ e \in T
  BY SeqMonotonic DEF LogOK
<1> HIDE DEF T
<1>2. /\ longer \in Seq(T) /\ Len(longer) = Len(cycles) + 1
      /\ \A i \in 1 .. Len(cycles) : longer[i] = cycles[i]
      /\ longer[Len(cycles) + 1] = e
  BY <1>1, AppendProperties
<1> HIDE DEF longer
<1>3. /\ Len(cycles) \in Nat /\ DOMAIN cycles = 1 .. Len(cycles)
      /\ DOMAIN longer = 1 .. Len(longer) /\ Len(longer) \in Nat
  BY <1>1, <1>2, LenProperties
<1>4. \A i \in 1 .. Len(longer) : longer[i] \in {longer[j] : j \in DOMAIN longer}
  BY <1>3
<1>5. longer \in [1 .. Len(longer) -> T]
  BY <1>2, LenProperties
<1>6. longer \in [1 .. Len(longer) -> {longer[j] : j \in DOMAIN longer}]
  BY <1>3, <1>4, <1>5
<1>7. longer \in Seq({longer[j] : j \in DOMAIN longer})
  BY <1>3, <1>6, SeqDef
<1> QED
  BY <1>2, <1>3, <1>7 DEF Extended, longer

\* A reset empties what is since the last one; any other cycle extends it.
LEMMA SinceExtended ==
  ASSUME NEW cycles, LogOK(cycles), NEW e, e.reset \in BOOLEAN
  PROVE  LET longer == Append(cycles, e)
         IN  /\ LogOK(longer)
             /\ IF e.reset THEN DOMAIN Since(longer) = {} /\ Len(Since(longer)) = 0
                ELSE Extended(Since(longer), Since(cycles), e)
<1>0. /\ Extended(Append(cycles, e), cycles, e)
      /\ Append(cycles, e) \in Seq({Append(cycles, e)[i] : i \in DOMAIN Append(cycles, e)})
  BY ONLY LogOK(cycles), AppendExtends, Zenon
<1> DEFINE longer == Append(cycles, e)
           n == Len(cycles)
<1> HIDE DEF longer
<1>1. Extended(longer, cycles, e) /\ longer \in Seq({longer[i] : i \in DOMAIN longer})
  BY <1>0, Zenon DEF longer
<1> HIDE DEF longer
<1>2. /\ LastReset(cycles) \in 0 .. n /\ n \in Nat
      /\ \A j \in Resettings(cycles) : j <= LastReset(cycles)
      /\ LastReset(cycles) # 0 => LastReset(cycles) \in Resettings(cycles)
      /\ DOMAIN cycles = 1 .. n
  BY LastResetOK
<1>3. DOMAIN longer = 1 .. n + 1 /\ Len(longer) = n + 1
  BY <1>1 DEF Extended
<1>4. Resettings(longer) = Resettings(cycles) \cup (IF e.reset THEN {n + 1} ELSE {})
  <2>1. \A i \in 1 .. n : i \in Resettings(longer) <=> i \in Resettings(cycles)
    BY <1>1, <1>2, <1>3 DEF Extended, Resettings
  <2>2. n + 1 \in Resettings(longer) <=> e.reset
    BY <1>1, <1>2, <1>3 DEF Extended, Resettings
  <2>3. Resettings(cycles) \subseteq 1 .. n /\ Resettings(longer) \subseteq 1 .. n + 1
    BY <1>2, <1>3 DEF Resettings
  <2>4. 1 .. n + 1 = (1 .. n) \cup {n + 1} /\ ~ (n + 1 \in 1 .. n)
    BY <1>2
  <2> QED
    BY <2>1, <2>2, <2>3, <2>4
<1>5. CASE e.reset
  <2>1. n + 1 \in Resettings(longer) /\ \A j \in Resettings(longer) : j <= n + 1
    BY <1>2, <1>4, <1>5 DEF Resettings
  <2>2. LogOK(longer)
    BY <1>1, <2>1 DEF LogOK
  <2>3. LastReset(longer) = n + 1
    <3>1. /\ LastReset(longer) \in 0 .. n + 1
          /\ \A j \in Resettings(longer) : j <= LastReset(longer)
      BY <1>3, <2>2, LastResetOK
    <3>2. n + 1 <= LastReset(longer)
      BY <2>1, <3>1
    <3> QED
      BY <1>2, <3>1, <3>2
  <2>4. Since(longer) = << >>
    BY <1>2, <1>3, <2>3, SubSeqEmpty DEF Since
  <2> QED
    BY <1>5, <2>2, <2>4 DEF longer
<1>6. CASE ~ e.reset
  <2>1. Resettings(longer) = Resettings(cycles)
    BY <1>4, <1>6
  <2>2. LogOK(longer)
    BY <1>1, <2>1 DEF LogOK
  <2>3. LastReset(longer) = LastReset(cycles)
    BY <2>1 DEF LastReset
  <2> DEFINE k == LastReset(cycles)
             S == {longer[i] : i \in DOMAIN longer}
             T == {cycles[i] : i \in DOMAIN cycles}
             new == SubSeq(longer, k + 1, n + 1)
             old == SubSeq(cycles, k + 1, n)
  <2>0. k \in 0 .. n
    BY <1>2
  <2>6. Since(cycles) = old /\ Since(longer) = new
    BY <1>3, <2>3 DEF Since
  <2>a. \A i \in k + 1 .. n : cycles[i] \in T
    BY <1>2
  <2>b. \A i \in k + 1 .. n + 1 : longer[i] \in S
    BY <1>2, <1>3
  <2> HIDE DEF S, T, k
  <2>4. /\ Len(old) = n - k /\ old \in Seq(T)
        /\ \A i \in 1 .. n - k : old[i] = cycles[k + i]
    <3>2. /\ old \in Seq(T)
          /\ Len(old) = IF k + 1 <= n THEN n - (k + 1) + 1 ELSE 0
          /\ \A i \in 1 .. n - (k + 1) + 1 : old[i] = cycles[k + 1 + i - 1]
      BY <1>2, <2>0, <2>a, SubSeqProperties
    <3> HIDE DEF old, n
    <3>3. n - (k + 1) + 1 = n - k /\ (~ (k + 1 <= n) => n - k = 0)
      BY <1>2, <2>0
    <3>4. \A i \in 1 .. n - k : k + 1 + i - 1 = k + i
      BY <1>2, <2>0
    <3> QED
      BY <3>2, <3>3, <3>4
  <2>5. /\ Len(new) = n + 1 - k /\ new \in Seq(S)
        /\ \A i \in 1 .. n + 1 - k : new[i] = longer[k + i]
    <3>2. /\ new \in Seq(S)
          /\ Len(new) = IF k + 1 <= n + 1 THEN n + 1 - (k + 1) + 1 ELSE 0
          /\ \A i \in 1 .. n + 1 - (k + 1) + 1 : new[i] = longer[k + 1 + i - 1]
      BY <1>2, <2>0, <2>b, SubSeqProperties
    <3> HIDE DEF new, n
    <3>3. n + 1 - (k + 1) + 1 = n + 1 - k /\ k + 1 <= n + 1
      BY <1>2, <2>0
    <3>4. \A i \in 1 .. n + 1 - k : k + 1 + i - 1 = k + i
      BY <1>2, <2>0
    <3> QED
      BY <3>2, <3>3, <3>4
  <2> HIDE DEF new, old, n
  <2>7. DOMAIN old = 1 .. Len(old) /\ DOMAIN new = 1 .. Len(new)
    BY <2>4, <2>5, LenProperties
  <2>9. \A i \in 1 .. n - k : new[i] = old[i]
    <3> SUFFICES ASSUME NEW i \in 1 .. n - k
                 PROVE  new[i] = old[i]
      OBVIOUS
    <3>1. n \in Int /\ k \in Int /\ 0 <= k /\ i \in Int /\ 1 <= i /\ i <= n - k
      BY <1>2, <2>0
    <3>2. i \in 1 .. n + 1 - k /\ k + i \in 1 .. n
      BY <3>1
    <3>3. old[i] = cycles[k + i] /\ new[i] = longer[k + i]
      BY <2>4, <2>5, <3>2
    <3>4. longer[k + i] = cycles[k + i]
      BY <1>1, <3>2 DEF Extended, n
    <3> QED
      BY <3>3, <3>4
  <2>10. new[n - k + 1] = e
    BY <1>1, <1>2, <2>5, <2>0 DEF Extended
  <2>11. Extended(new, old, e)
    BY <1>2, <2>4, <2>5, <2>7, <2>0, <2>9, <2>10 DEF Extended
  <2> QED
    BY <1>6, <2>2, <2>6, <2>11 DEF longer
<1> QED
  BY <1>5, <1>6

-----------------------------------------------------------------------------
(* The key of the registers.                                               *)

\* The last write to register 15 was the first half of the key.
HalfOpen(cycles) ==
  \E i \in KeyWrites(cycles) :
    /\ cycles[i].data = 11
    /\ \A j \in KeyWrites(cycles) : j <= i

LockKnown(v, cycles) ==
  /\ v \in {Locked, 1, Unlocked}
  /\ v = Unlocked <=> UnlockedBy(cycles)
  /\ v = 1 <=> HalfOpen(cycles)

LEMMA LockExtended ==
  ASSUME NEW cycles, NEW e, NEW longer, Extended(longer, cycles, e),
         NEW v, LockKnown(v, cycles)
  PROVE  LockKnown(IF LockWritten(e.mode, e.address) THEN NextLock(v, e.data) ELSE v, longer)
<1> DEFINE n == Len(cycles)
           K == KeyWrites(cycles)
           L == KeyWrites(longer)
<1>1. /\ n \in Nat /\ K \subseteq 1 .. n /\ L \subseteq 1 .. n + 1
      /\ \A i \in 1 .. n : longer[i] = cycles[i] /\ (i \in L <=> i \in K)
      /\ longer[n + 1] = e /\ (n + 1 \in L <=> LockWritten(e.mode, e.address))
  BY DEF Extended, KeyWrites, LockWritten
<1>2. /\ UnlockedBy(cycles) <=> \E i \in K : /\ cycles[i].data = 11
                                             /\ \E j \in K : i < j
                                             /\ \A j \in K : i < j => cycles[j].data = 22
      /\ HalfOpen(cycles) <=> \E i \in K : cycles[i].data = 11 /\ \A j \in K : j <= i
      /\ UnlockedBy(longer) <=> \E i \in L : /\ longer[i].data = 11
                                             /\ \E j \in L : i < j
                                             /\ \A j \in L : i < j => longer[j].data = 22
      /\ HalfOpen(longer) <=> \E i \in L : longer[i].data = 11 /\ \A j \in L : j <= i
  BY DEF UnlockedBy, HalfOpen
<1> HIDE DEF n, K, L
<1>0. /\ 1 .. n + 1 = (1 .. n) \cup {n + 1} /\ ~ (n + 1 \in 1 .. n)
      /\ \A i \in 1 .. n : i < n + 1
  BY <1>1
<1>3. CASE ~ LockWritten(e.mode, e.address)
  <2>1. L = K /\ \A i \in K : longer[i] = cycles[i]
    BY <1>0, <1>1, <1>3
  <2>2. /\ UnlockedBy(longer) <=> UnlockedBy(cycles)
        /\ HalfOpen(longer) <=> HalfOpen(cycles)
    BY <1>2, <2>1
  <2> QED
    BY <1>3, <2>2 DEF LockKnown
<1>4. CASE LockWritten(e.mode, e.address)
  <2>1. L = K \cup {n + 1} /\ \A i \in K : longer[i] = cycles[i] /\ i < n + 1
    BY <1>0, <1>1, <1>4
  <2>2. n + 1 \in L /\ longer[n + 1].data = e.data /\ \A j \in L : j <= n + 1 /\ j \in Int
    BY <1>1, <2>1
  <2>3. HalfOpen(longer) <=> e.data = 11
    <3>1. ASSUME NEW i \in L, \A j \in L : j <= i
          PROVE  i = n + 1
      BY <2>2, <3>1, <1>1
    <3> QED
      BY <1>2, <2>2, <3>1
  <2>4. CASE e.data = 22
    <3>1. UnlockedBy(longer) => UnlockedBy(cycles) \/ HalfOpen(cycles)
      <4>1. ASSUME NEW i \in L, longer[i].data = 11,
                   \A j \in L : i < j => longer[j].data = 22
            PROVE  UnlockedBy(cycles) \/ HalfOpen(cycles)
        <5>1. i \in K /\ cycles[i].data = 11
          BY <2>1, <2>2, <2>4, <4>1
        <5>2. \A j \in K : i < j => cycles[j].data = 22
          BY <2>1, <4>1
        <5>3. \A j \in K : i \in Int /\ j \in Int
          BY <2>1, <2>2, <5>1
        <5>4. CASE \E j \in K : i < j
          BY <1>2, <5>1, <5>2, <5>4
        <5>5. CASE \A j \in K : j <= i
          BY <1>2, <5>1, <5>5
        <5> QED
          BY <5>3, <5>4, <5>5
      <4> QED
        BY <1>2, <4>1
    <3>2. ASSUME NEW i \in K, cycles[i].data = 11,
                 \A j \in K : i < j => cycles[j].data = 22
          PROVE  UnlockedBy(longer)
      <4>1. i \in L /\ longer[i].data = 11 /\ i < n + 1
        BY <2>1, <3>2
      <4>2. \A j \in L : i < j => longer[j].data = 22
        BY <2>1, <2>2, <2>4, <3>2
      <4> QED
        BY <1>2, <2>2, <4>1, <4>2
    <3>3. UnlockedBy(cycles) => UnlockedBy(longer)
      BY <1>2, <3>2
    <3>4. HalfOpen(cycles) => UnlockedBy(longer)
      <4>1. ASSUME NEW i \in K, cycles[i].data = 11, \A j \in K : j <= i
            PROVE  UnlockedBy(longer)
        <5>1. \A j \in K : ~ (i < j)
          <6>1. \A j \in K : i \in Int /\ j \in Int
            BY <2>1, <2>2
          <6> QED
            BY <4>1, <6>1
        <5> QED
          BY <3>2, <4>1, <5>1
      <4> QED
        BY <1>2, <4>1
    <3>5. NextLock(v, e.data) = IF v = 1 THEN Unlocked ELSE v
      BY <2>4 DEF NextLock
    <3> QED
      BY <1>4, <2>3, <2>4, <3>1, <3>3, <3>4, <3>5 DEF LockKnown, Locked, Unlocked
  <2>5. CASE e.data # 22
    <3>1. ~ UnlockedBy(longer)
      <4>1. ASSUME NEW i \in L, longer[i].data = 11, NEW j \in L, i < j,
                   \A k \in L : i < k => longer[k].data = 22
            PROVE  FALSE
        <5>1. i < n + 1
          BY <1>1, <2>2, <4>1
        <5> QED
          BY <2>2, <2>5, <4>1, <5>1
      <4> QED
        BY <1>2, <4>1
    <3>2. NextLock(v, e.data) = IF e.data = 11 THEN 1 ELSE Locked
      BY <2>5 DEF NextLock
    <3> QED
      BY <1>4, <2>3, <3>1, <3>2 DEF LockKnown, Locked, Unlocked
  <2> QED
    BY <2>4, <2>5
<1> QED
  BY <1>3, <1>4

LEMMA LockForgotten ==
  ASSUME NEW cycles, DOMAIN cycles = {}
  PROVE  LockKnown(Locked, cycles)
BY DEF LockKnown, UnlockedBy, HalfOpen, KeyWrites, Locked, Unlocked

-----------------------------------------------------------------------------
(* The key of the ROMX.                                                    *)

\* No key page read came after cycle i.
Quiet(cycles, i) == \A m \in i + 1 .. Len(cycles) : ~ KeyPageRead(cycles, m)

RomxKnown(v, cycles) ==
  /\ v \in 0 .. 3
  /\ v = 1 => \E i \in DOMAIN cycles : Low(cycles, i) /\ Quiet(cycles, i)
  /\ v = 2 => \E i, j \in DOMAIN cycles :
                Low(cycles, i) /\ Low(cycles, j) /\ Successive(cycles, i, j) /\ Quiet(cycles, j)
  /\ v = 3 => \E k \in DOMAIN cycles : OpenSince(cycles, k)

LEMMA PageExtended ==
  ASSUME NEW cycles, NEW e, NEW longer, Extended(longer, cycles, e),
         NEW last, last = Len(cycles) + 1
  PROVE  LET n == Len(cycles)
         IN  /\ \A i \in 1 .. n : /\ KeyPageRead(longer, i) <=> KeyPageRead(cycles, i)
                                  /\ Low(longer, i) <=> Low(cycles, i)
                                  /\ High(longer, i) <=> High(cycles, i)
             /\ KeyPageRead(longer, last) <=> KeyRead(e.mode, e.address, e.machine)
             /\ Low(longer, last) <=> KeyPageRead(longer, last) /\ e.address % 256 = KeyLow
             /\ High(longer, last) <=> KeyPageRead(longer, last) /\ e.address % 256 = KeyHigh
             /\ \A i, j \in 1 .. n : Successive(cycles, i, j) <=> Successive(longer, i, j)
             /\ \A i \in 1 .. n : Quiet(cycles, i) <=> Successive(longer, i, last)
             /\ \A i \in 1 .. n :
                  Quiet(longer, i) <=> Quiet(cycles, i) /\ ~ KeyPageRead(longer, last)
             /\ Quiet(longer, last)
<1> DEFINE n == Len(cycles)
<1>1. /\ n \in Nat /\ DOMAIN cycles = 1 .. n /\ DOMAIN longer = 1 .. last
      /\ Len(longer) = last /\ longer[last] = e
      /\ \A i \in 1 .. n : longer[i] = cycles[i]
  BY DEF Extended
<1>2. /\ last \in Int /\ last \in 1 .. last /\ ~ (last \in 1 .. n)
      /\ 1 .. last = (1 .. n) \cup {last} /\ \A i \in 1 .. n : i < last
      /\ \A i \in 1 .. n : i + 1 .. last = (i + 1 .. n) \cup {last}
      /\ \A i \in 1 .. n : \A m \in i + 1 .. n : m \in 1 .. n
  BY <1>1
<1>3. \A i \in 1 .. n : /\ KeyPageRead(longer, i) <=> KeyPageRead(cycles, i)
                        /\ Low(longer, i) <=> Low(cycles, i)
                        /\ High(longer, i) <=> High(cycles, i)
  BY <1>1, <1>2 DEF KeyPageRead, Low, High
<1>4. /\ KeyPageRead(longer, last) <=> KeyRead(e.mode, e.address, e.machine)
      /\ Low(longer, last) <=> KeyPageRead(longer, last) /\ e.address % 256 = KeyLow
      /\ High(longer, last) <=> KeyPageRead(longer, last) /\ e.address % 256 = KeyHigh
  BY <1>1, <1>2 DEF KeyPageRead, KeyRead, Low, High
<1>5. \A i, j \in 1 .. n : Successive(cycles, i, j) <=> Successive(longer, i, j)
  <2>1. \A i, j \in 1 .. n : \A m \in i + 1 .. j - 1 : m \in 1 .. n
    BY <1>1
  <2> QED
    BY <1>3, <2>1 DEF Successive
<1>6. \A i \in 1 .. n : Quiet(cycles, i) <=> Successive(longer, i, last)
  <2>1. \A i \in 1 .. n : i < last /\ i + 1 .. last - 1 = i + 1 .. n
    BY <1>1
  <2> QED
    BY <1>2, <1>3, <2>1 DEF Successive, Quiet
<1>7. \A i \in 1 .. n : Quiet(longer, i) <=> Quiet(cycles, i) /\ ~ KeyPageRead(longer, last)
  <2> SUFFICES ASSUME NEW i \in 1 .. n
               PROVE  Quiet(longer, i) <=> Quiet(cycles, i) /\ ~ KeyPageRead(longer, last)
    OBVIOUS
  <2>1. Quiet(longer, i) <=> \A m \in (i + 1 .. n) \cup {last} : ~ KeyPageRead(longer, m)
    BY <1>1, <1>2 DEF Quiet
  <2>2. Quiet(cycles, i) <=> \A m \in i + 1 .. n : ~ KeyPageRead(longer, m)
    BY <1>2, <1>3 DEF Quiet
  <2> QED
    BY <2>1, <2>2
<1>8. Quiet(longer, last)
  <2>1. \A m \in last + 1 .. last : FALSE
    BY <1>2
  <2> QED
    BY <1>1, <2>1 DEF Quiet
<1> QED
  BY <1>3, <1>4, <1>5, <1>6, <1>7, <1>8

\* An open font selection stays open, until a part of the key is read.
LEMMA OpenExtended ==
  ASSUME NEW cycles, NEW e, NEW longer, Extended(longer, cycles, e),
         NEW last, last = Len(cycles) + 1, ~ Low(longer, last), ~ High(longer, last),
         NEW k \in 1 .. Len(cycles), OpenSince(cycles, k)
  PROVE  OpenSince(longer, k)
<1> DEFINE n == Len(cycles)
<1>1. n \in Nat /\ Len(longer) = last /\ last \in Int
  BY DEF Extended
<1>2. PICK i \in 1 .. k, j \in 1 .. k : Key(cycles, i, j, k)
  BY DEF OpenSince
<1>3. i \in 1 .. n /\ j \in 1 .. n
  BY <1>1
<1>4. Key(longer, i, j, k)
  BY <1>2, <1>3, PageExtended DEF Key
<1>5. /\ k + 1 .. last = (k + 1 .. n) \cup {last}
      /\ \A m \in k + 1 .. n : m \in 1 .. n
  BY <1>1
<1>6. \A m \in k + 1 .. n : ~ Low(longer, m) /\ ~ High(longer, m)
  <2>1. \A m \in k + 1 .. n : ~ Low(cycles, m) /\ ~ High(cycles, m)
    BY DEF OpenSince
  <2> QED
    BY <1>5, <2>1, PageExtended
<1>7. \A m \in k + 1 .. last : ~ Low(longer, m) /\ ~ High(longer, m)
  BY <1>5, <1>6
<1> QED
  BY <1>1, <1>4, <1>7 DEF OpenSince

\* The key is complete.
LEMMA KeyCompleted ==
  ASSUME NEW cycles, NEW e, NEW longer, Extended(longer, cycles, e),
         NEW last, last = Len(cycles) + 1, High(longer, last),
         RomxKnown(2, cycles)
  PROVE  OpenSince(longer, last)
<1> DEFINE n == Len(cycles)
<1>1. n \in Nat /\ DOMAIN cycles = 1 .. n /\ Len(longer) = last /\ last \in Int
  BY DEF Extended
<1>2. PICK i \in 1 .. n, j \in 1 .. n :
        /\ Low(cycles, i) /\ Low(cycles, j)
        /\ Successive(cycles, i, j) /\ Quiet(cycles, j)
  BY <1>1 DEF RomxKnown
<1>3. Key(longer, i, j, last)
  BY <1>2, PageExtended DEF Key
<1>4. i \in 1 .. last /\ j \in 1 .. last /\ \A m \in last + 1 .. last : FALSE
  BY <1>1
<1> QED
  BY <1>1, <1>3, <1>4 DEF OpenSince

LEMMA RomxExtended ==
  ASSUME NEW cycles, NEW e, NEW longer, Extended(longer, cycles, e),
         NEW v, RomxKnown(v, cycles), NEW w,
         IF KeyRead(e.mode, e.address, e.machine)
         THEN w = NextRomx(v, e.address % 256) ELSE w \in {v, 0}
  PROVE  RomxKnown(w, longer)
<1> DEFINE n == Len(cycles)
           last == n + 1
<1>1. n \in Nat /\ DOMAIN cycles = 1 .. n /\ DOMAIN longer = 1 .. last
  BY DEF Extended
<1>2. last \in 1 .. last /\ \A i \in 1 .. n : i \in 1 .. last
  BY <1>1
<1>3. /\ \A i \in 1 .. n : Low(longer, i) <=> Low(cycles, i)
      /\ KeyPageRead(longer, last) <=> KeyRead(e.mode, e.address, e.machine)
      /\ Low(longer, last) <=> KeyPageRead(longer, last) /\ e.address % 256 = KeyLow
      /\ High(longer, last) <=> KeyPageRead(longer, last) /\ e.address % 256 = KeyHigh
  BY PageExtended
<1>4. /\ \A i, j \in 1 .. n : Successive(cycles, i, j) <=> Successive(longer, i, j)
      /\ \A i \in 1 .. n : Quiet(cycles, i) <=> Successive(longer, i, last)
      /\ \A i \in 1 .. n : Quiet(longer, i) <=> Quiet(cycles, i) /\ ~ KeyPageRead(longer, last)
      /\ Quiet(longer, last)
  BY PageExtended
<1>5. \A k \in 1 .. n : OpenSince(cycles, k) /\ ~ Low(longer, last) /\ ~ High(longer, last)
                          => OpenSince(longer, k)
  BY OpenExtended
<1>6. /\ v \in 0 .. 3
      /\ v = 1 => \E i \in 1 .. n : Low(cycles, i) /\ Quiet(cycles, i)
      /\ v = 2 => \E i, j \in 1 .. n : /\ Low(cycles, i) /\ Low(cycles, j)
                                       /\ Successive(cycles, i, j) /\ Quiet(cycles, j)
      /\ v = 3 => \E k \in 1 .. n : OpenSince(cycles, k)
  BY <1>1 DEF RomxKnown
<1>7. RomxKnown(w, longer) <=>
        /\ w \in 0 .. 3
        /\ w = 1 => \E i \in 1 .. last : Low(longer, i) /\ Quiet(longer, i)
        /\ w = 2 => \E i, j \in 1 .. last : /\ Low(longer, i) /\ Low(longer, j)
                                            /\ Successive(longer, i, j) /\ Quiet(longer, j)
        /\ w = 3 => \E k \in 1 .. last : OpenSince(longer, k)
  BY <1>1 DEF RomxKnown
<1>8. High(longer, last) /\ v = 2 => OpenSince(longer, last)
  BY KeyCompleted
<1> HIDE DEF n, last
<1>9. CASE ~ KeyPageRead(longer, last)
  <2>1. w \in {v, 0} /\ ~ Low(longer, last) /\ ~ High(longer, last)
    BY <1>3, <1>9
  <2>2. CASE w = 0
    BY <1>7, <2>2
  <2>3. CASE w = v /\ v = 1
    <3>1. PICK i \in 1 .. n : Low(cycles, i) /\ Quiet(cycles, i)
      BY <1>6, <2>3
    <3>2. i \in 1 .. last /\ Low(longer, i) /\ Quiet(longer, i)
      BY <1>2, <1>3, <1>4, <1>9, <3>1
    <3> QED
      BY <1>7, <2>3, <3>2
  <2>4. CASE w = v /\ v = 2
    <3>1. PICK i \in 1 .. n, j \in 1 .. n :
            /\ Low(cycles, i) /\ Low(cycles, j)
            /\ Successive(cycles, i, j) /\ Quiet(cycles, j)
      BY <1>6, <2>4
    <3>2. /\ i \in 1 .. last /\ j \in 1 .. last /\ Low(longer, i) /\ Low(longer, j)
          /\ Successive(longer, i, j) /\ Quiet(longer, j)
      BY <1>2, <1>3, <1>4, <1>9, <3>1
    <3> QED
      BY <1>7, <2>4, <3>2
  <2>5. CASE w = v /\ v = 3
    <3>1. \E k \in 1 .. last : OpenSince(longer, k)
      BY <1>2, <1>5, <1>6, <2>1, <2>5
    <3> QED
      BY <1>7, <2>5, <3>1
  <2> QED
    BY <1>6, <2>1, <2>2, <2>3, <2>4, <2>5
<1>10. CASE KeyPageRead(longer, last)
  <2> DEFINE low == e.address % 256
  <2> HIDE DEF low
  <2>1. w = NextRomx(v, low) /\ KeyLow # KeyHigh
    BY <1>3, <1>10 DEF low, KeyLow, KeyHigh
  <2>2. CASE low = KeyLow
    <3>1. Low(longer, last)
      BY <1>3, <1>10, <2>2 DEF low
    <3>2. w = IF v = 1 THEN 2 ELSE 1
      BY <2>1, <2>2 DEF NextRomx
    <3>3. CASE v = 1
      <4>1. PICK i \in 1 .. n : Low(cycles, i) /\ Quiet(cycles, i)
        BY <1>6, <3>3
      <4>2. i \in 1 .. last /\ Low(longer, i) /\ Successive(longer, i, last)
        BY <1>2, <1>3, <1>4, <4>1
      <4> QED
        BY <1>2, <1>7, <1>4, <3>1, <3>2, <3>3, <4>2
    <3>4. CASE v # 1
      BY <1>2, <1>7, <1>4, <3>1, <3>2, <3>4
    <3> QED
      BY <3>3, <3>4
  <2>3. CASE low = KeyHigh
    <3>1. High(longer, last)
      BY <1>3, <1>10, <2>3 DEF low
    <3>2. w = IF v = 2 THEN 3 ELSE 0
      BY <2>1, <2>3 DEF NextRomx
    <3>3. CASE v = 2
      BY <1>2, <1>7, <1>8, <3>1, <3>2, <3>3
    <3>4. CASE v # 2
      BY <1>7, <3>2, <3>4
    <3> QED
      BY <3>3, <3>4
  <2>4. CASE low # KeyLow /\ low # KeyHigh
    <3>1. ~ Low(longer, last) /\ ~ High(longer, last)
      BY <1>3, <2>4 DEF low
    <3>2. w = IF v = 3 THEN 3 ELSE 0
      BY <2>1, <2>4 DEF NextRomx
    <3>3. CASE v = 3
      BY <1>2, <1>5, <1>6, <1>7, <3>1, <3>2, <3>3
    <3>4. CASE v # 3
      BY <1>7, <3>2, <3>4
    <3> QED
      BY <3>3, <3>4
  <2> QED
    BY <2>2, <2>3, <2>4
<1> QED
  BY <1>9, <1>10

LEMMA RomxForgotten ==
  ASSUME NEW cycles
  PROVE  RomxKnown(0, cycles)
BY DEF RomxKnown

-----------------------------------------------------------------------------
(* The invariant.                                                          *)

\* What the firmware remembers is what the cycles since the last reset say.
HistoryInv ==
  /\ Ready(dev)
  /\ LogOK(log)
  /\ LockKnown(dev.dev_config_lock, Recent)
  /\ RomxKnown(dev.romx_unlocked, Recent)

LEMMA HistoryInvInit == HistoryInit => HistoryInv
<1> SUFFICES ASSUME HistoryInit
             PROVE  HistoryInv
  OBVIOUS
<1>1. PICK c \in Saved : dev = BusPowerOn([FreshFlash EXCEPT !.config = c])
  BY DEF HistoryInit, Init, PoweredOn
<1>2. Ready(dev) /\ dev.dev_config_lock = Locked /\ dev.romx_unlocked = 0
  BY <1>1, PowerOnState
<1>3. log = << >>
  BY DEF HistoryInit
<1>4. LogOK(log) /\ DOMAIN Recent = {}
  <2>1. DOMAIN log = {} /\ Len(log) = 0 /\ Resettings(log) = {}
    BY <1>3 DEF Resettings
  <2>2. Recent = << >>
    BY <1>3, <2>1, SubSeqEmpty DEF Recent, Since, LastReset
  <2>3. log \in Seq({log[i] : i \in DOMAIN log})
    BY <1>3
  <2> QED
    BY <2>1, <2>2, <2>3 DEF LogOK
<1> QED
  BY <1>2, <1>4, LockForgotten, RomxForgotten DEF HistoryInv

LEMMA HistoryInvNext == HistoryInv /\ [HistoryNext]_vars => HistoryInv'
<1> SUFFICES ASSUME HistoryInv, [HistoryNext]_vars
             PROVE  HistoryInv'
  OBVIOUS
<1>1. CASE UNCHANGED vars
  <2>1. dev' = dev /\ log' = log
    BY <1>1 DEF vars
  <2> QED
    BY <2>1 DEF HistoryInv, Recent
<1>2. ASSUME NEW x \in Words, Logged(x[1], x[2], x[3])
      PROVE  HistoryInv'
  <2> DEFINE mode == x[1]
             address == x[2]
             data == x[3]
             e == [mode |-> mode, address |-> address, data |-> data,
                   machine |-> dev.current_machine, reset |-> Resets(mode, address)]
  <2>1. /\ address \in Address
        /\ mode \in {"WriteDev", "ReadDev"} => address \in DeviceSelect
    <3>1. OnTheBus(mode, address, data)
      BY <1>2, WordsAssumption
    <3> HIDE DEF mode, address, data, e
    <3> QED
      BY <3>1, Zenon DEF OnTheBus
  <2>2. /\ dev' = AfterCycle(dev, mode, address, data)
        /\ log' = Append(log, e)
    BY <1>2 DEF Logged, BusCycle, AfterCycle
  <2>3. e.reset \in BOOLEAN /\ (e.reset <=> ResetCycle(dev, mode, address))
        /\ e.mode = mode /\ e.address = address /\ e.data = data
        /\ e.machine = dev.current_machine
    <3> DEFINE reset == Resets(mode, address)
    <3>1. reset \in BOOLEAN /\ (reset <=> ResetCycle(dev, mode, address))
      BY DEF Resets, ResetCycle
    <3> HIDE DEF reset
    <3>2. e = [mode |-> mode, address |-> address, data |-> data,
               machine |-> dev.current_machine, reset |-> reset]
      BY DEF reset
    <3> HIDE DEF e, mode, address, data
    <3>3. e.reset = reset /\ e.mode = mode /\ e.address = address /\ e.data = data
          /\ e.machine = dev.current_machine
      BY <3>2
    <3> QED
      BY <3>1, <3>3
  <2> HIDE DEF mode, address, data, e
  <2>4. Ready(dev') /\ Locks(dev, dev', mode, address, data)
    BY <2>1, <2>2, WholeCycle DEF HistoryInv
  <2>5. /\ LogOK(log')
        /\ IF e.reset THEN DOMAIN Since(log') = {}
           ELSE Extended(Since(log'), Since(log), e)
    BY <2>2, <2>3, SinceExtended DEF HistoryInv
  <2>6. CASE e.reset
    <3>1. dev'.dev_config_lock = Locked /\ dev'.romx_unlocked = 0
      BY <2>3, <2>4, <2>6 DEF Locks
    <3>2. LockKnown(Locked, Since(log')) /\ RomxKnown(0, Since(log'))
      BY <2>5, <2>6, LockForgotten, RomxForgotten
    <3> QED
      BY <2>4, <2>5, <3>1, <3>2 DEF HistoryInv, Recent
  <2>7. CASE ~ e.reset
    <3>1. dev'.dev_config_lock = IF LockWritten(e.mode, e.address)
                                 THEN NextLock(dev.dev_config_lock, e.data)
                                 ELSE dev.dev_config_lock
      BY <2>3, <2>4, <2>7 DEF Locks
    <3>2. IF KeyRead(e.mode, e.address, e.machine)
          THEN dev'.romx_unlocked = NextRomx(dev.romx_unlocked, e.address % 256)
          ELSE RomxKept(dev, dev')
      BY <2>3, <2>4, <2>7 DEF Locks
    <3>3. Extended(Since(log'), Since(log), e)
      BY <2>5, <2>7
    <3>4. LockKnown(dev'.dev_config_lock, Since(log'))
      BY <3>1, <3>3, LockExtended DEF HistoryInv, Recent
    <3>5. RomxKnown(dev'.romx_unlocked, Since(log'))
      BY <3>2, <3>3, RomxExtended DEF HistoryInv, Recent, RomxKept
    <3> QED
      BY <2>4, <2>5, <3>4, <3>5 DEF HistoryInv, Recent
  <2> QED
    BY <2>3, <2>6, <2>7
<1> QED
  BY <1>1, <1>2 DEF HistoryNext

\* No lock opens but by its own key, for every set of bus cycles, every saved
\* configuration and every length of the program.
THEOREM LocksAlwaysHold == HistorySpec => []LocksHold
<1>1. HistoryInv => LocksHold
  <2> SUFFICES ASSUME HistoryInv
               PROVE  LocksHold
    OBVIOUS
  <2>1. dev.dev_config_lock = Unlocked <=> UnlockedBy(Recent)
    BY DEF HistoryInv, LockKnown
  <2>2. dev.romx_unlocked = 3 => \E k \in DOMAIN Recent : OpenSince(Recent, k)
    BY DEF HistoryInv, RomxKnown
  <2> QED
    BY <2>1, <2>2 DEF LocksHold, RegistersOpen, RomxOpen
<1> QED
  BY <1>1, HistoryInvInit, HistoryInvNext, PTL DEF HistorySpec

-----------------------------------------------------------------------------
(* The reset.                                                              *)

\* The recogniser of the reset after a cycle.
NextReset(old, mode, address) ==
  IF mode = "ReadMem" /\ old = 0 /\ address = 65532 THEN 1
  ELSE IF mode = "ReadMem" /\ old = 1 /\ address = 65533 THEN 2
  ELSE 0

\* What a reset closes.
ClosedByReset(t) ==
  "MENU_ENABLE" \notin t.internal_flags /\ t.soft_switches = {"TEXT", "V7_MODE1", "V7_MODE2"}

LEMMA ResetDetected ==
  ASSUME NEW s, Ready(s), NEW mode, NEW address
  PROVE  LET t == reset_detection(s, mode, address)
         IN  /\ t.reset_state = NextReset(s.reset_state, mode, address)
             /\ ResetCycle(s, mode, address) => ClosedByReset(t)
<1> DEFINE t == reset_detection(s, mode, address)
<1>1. Reset(s).reset_state = 0 /\ ClosedByReset(Reset(s))
  BY DEF Ready, Reset, Flag, ClosedByReset
<1>2. \A n : [s EXCEPT !.reset_state = n].reset_state = n
  BY DEF Ready
<1>3. CASE ResetCycle(s, mode, address)
  <2>1. t = Reset(s)
    BY <1>3 DEF ResetCycle, reset_detection
  <2>2. NextReset(s.reset_state, mode, address) = 0
    BY <1>3 DEF ResetCycle, NextReset
  <2> QED
    BY <1>1, <2>1, <2>2
<1>4. CASE ~ ResetCycle(s, mode, address)
  <2>1. t = [s EXCEPT !.reset_state = NextReset(s.reset_state, mode, address)]
    BY <1>4 DEF ResetCycle, reset_detection, NextReset
  <2> QED
    BY <1>2, <1>4, <2>1
<1> QED
  BY <1>3, <1>4

LEMMA ResetOfCycle ==
  ASSUME NEW s, Ready(s), NEW mode, NEW address \in Address, NEW data,
         mode \in {"WriteDev", "ReadDev"} => address \in DeviceSelect
  PROVE  LET t == AfterCycle(s, mode, address, data)
         IN  /\ t.reset_state = NextReset(s.reset_state, mode, address)
             /\ ResetCycle(s, mode, address) => ClosedByReset(t)
<1> DEFINE e == apple2emulation(s, mode, address, data)
           r == reset_detection(e, mode, address)
           t == AfterCycle(s, mode, address, data)
<1> HIDE DEF e, r, t
<1>1. Emulated(s, e, mode, address, data)
  BY EmulatedCycle DEF e
<1>2. Ready(e) /\ (ResetCycle(e, mode, address) <=> ResetCycle(s, mode, address))
  BY <1>1 DEF Emulated, Ready, ResetCycle
<1>3. DOMAIN r = DOMAIN e
  BY <1>2, ResetChanges DEF r
<1>4. /\ r.reset_state = NextReset(e.reset_state, mode, address)
      /\ ResetCycle(e, mode, address) => ClosedByReset(r)
  BY <1>2, ResetDetected DEF r
<1>5. /\ t.reset_state = r.reset_state /\ t.internal_flags = r.internal_flags
      /\ t.soft_switches = r.soft_switches
  BY <1>2, <1>3 DEF Ready, AfterCycle, businterface, e, r, t
<1> QED
  BY <1>1, <1>2, <1>4, <1>5 DEF Emulated, ClosedByReset, t

\* The cycle k before the last one is a read of this address.
Back(cycles, k, address) ==
  /\ Len(cycles) - k \in DOMAIN cycles
  /\ cycles[Len(cycles) - k].mode = "ReadMem"
  /\ cycles[Len(cycles) - k].address = address

\* The reads that the recogniser counts were the last cycles on the bus; and it has
\* counted them, unless a part of the vector was read just before.
ResetKnown(v, cycles) ==
  /\ v \in 0 .. 2
  /\ v = 1 => Back(cycles, 0, 65532)
  /\ v = 2 => Back(cycles, 1, 65532) /\ Back(cycles, 0, 65533)
  /\ /\ Back(cycles, 0, 65532)
     /\ ~ Back(cycles, 1, 65532)
     /\ ~ (Back(cycles, 2, 65532) /\ Back(cycles, 1, 65533))
     => v = 1
  /\ /\ Back(cycles, 1, 65532) /\ Back(cycles, 0, 65533)
     /\ ~ Back(cycles, 2, 65532)
     /\ ~ (Back(cycles, 3, 65532) /\ Back(cycles, 2, 65533))
     => v = 2

LEMMA BackExtended ==
  ASSUME NEW cycles, NEW e, NEW longer, Extended(longer, cycles, e), NEW address
  PROVE  /\ Back(longer, 0, address) <=> e.mode = "ReadMem" /\ e.address = address
         /\ Back(longer, 1, address) <=> Back(cycles, 0, address)
         /\ Back(longer, 2, address) <=> Back(cycles, 1, address)
         /\ Back(longer, 3, address) <=> Back(cycles, 2, address)
         /\ Back(longer, 4, address) <=> Back(cycles, 3, address)
<1> DEFINE n == Len(cycles)
<1>1. /\ n \in Nat /\ DOMAIN cycles = 1 .. n /\ DOMAIN longer = 1 .. n + 1
      /\ Len(longer) = n + 1 /\ longer[n + 1] = e
      /\ \A i \in 1 .. n : longer[i] = cycles[i]
  BY DEF Extended
<1> HIDE DEF n
<1>2. n + 1 - 0 = n + 1 /\ n + 1 \in 1 .. n + 1
  BY <1>1
<1>3. Back(longer, 0, address) <=> e.mode = "ReadMem" /\ e.address = address
  BY <1>1, <1>2 DEF Back
<1>4. \A k \in 0 .. 3 : Back(longer, k + 1, address) <=> Back(cycles, k, address)
  <2> SUFFICES ASSUME NEW k \in 0 .. 3
               PROVE  Back(longer, k + 1, address) <=> Back(cycles, k, address)
    OBVIOUS
  <2> DEFINE i == n - k
  <2>1. n + 1 - (k + 1) = i /\ (i \in 1 .. n + 1 <=> i \in 1 .. n)
    BY <1>1
  <2>2. i \in 1 .. n => longer[i] = cycles[i]
    BY <1>1
  <2>3. Len(cycles) = n
    BY DEF n
  <2> HIDE DEF i
  <2>4. Back(longer, k + 1, address) <=> /\ i \in 1 .. n
                                         /\ longer[i].mode = "ReadMem"
                                         /\ longer[i].address = address
    BY <1>1, <2>1 DEF Back
  <2>5. Back(cycles, k, address) <=> /\ i \in 1 .. n
                                     /\ cycles[i].mode = "ReadMem"
                                     /\ cycles[i].address = address
    BY <1>1, <2>3 DEF Back, i
  <2> QED
    BY <2>2, <2>4, <2>5
<1>5. 1 = 0 + 1 /\ 2 = 1 + 1 /\ 3 = 2 + 1 /\ 4 = 3 + 1
  OBVIOUS
<1> QED
  BY <1>3, <1>4, <1>5

LEMMA ResetExtended ==
  ASSUME NEW cycles, NEW e, NEW longer, Extended(longer, cycles, e),
         NEW v, ResetKnown(v, cycles)
  PROVE  ResetKnown(NextReset(v, e.mode, e.address), longer)
<1>1. \A a : /\ Back(longer, 0, a) <=> e.mode = "ReadMem" /\ e.address = a
             /\ Back(longer, 1, a) <=> Back(cycles, 0, a)
             /\ Back(longer, 2, a) <=> Back(cycles, 1, a)
             /\ Back(longer, 3, a) <=> Back(cycles, 2, a)
  BY BackExtended
<1>2. \A a, b : Back(cycles, 0, a) /\ Back(cycles, 0, b) => a = b
  BY DEF Back
<1> QED
  BY <1>1, <1>2 DEF ResetKnown, NextReset

LEMMA ResetNotStarted ==
  ASSUME NEW cycles, DOMAIN cycles = {}
  PROVE  ResetKnown(0, cycles)
BY DEF ResetKnown, Back

\* The vector, and a part of the vector before it.
LEMMA VectorTwice ==
  ASSUME NEW n \in 1 .. 2
  PROVE  LET w == SubSeq(ResetVector, 1, n) \o ResetVector
         IN  /\ Len(w) = n + 3 /\ DOMAIN w = 1 .. n + 3
             /\ \A i \in 1 .. n : w[i] = ResetVector[i]
             /\ \A i \in 1 .. 3 : w[n + i] = ResetVector[i]
<1> DEFINE v == ResetVector
           part == SubSeq(v, 1, n)
           w == part \o v
<1>1. v \in Seq(Nat) /\ Len(v) = 3 /\ \A i \in 1 .. 3 : v[i] \in Nat
  BY DEF ResetVector
<1> HIDE DEF v
<1>2. \A i \in 1 .. n : i \in 1 .. 3 /\ v[i] \in Nat
  BY <1>1
<1>3. /\ part \in Seq(Nat) /\ Len(part) = IF 1 <= n THEN n - 1 + 1 ELSE 0
      /\ \A i \in 1 .. n - 1 + 1 : part[i] = v[1 + i - 1]
  BY <1>2, SubSeqProperties
<1> HIDE DEF part
<1>4. Len(part) = n /\ \A i \in 1 .. n : part[i] = v[i]
  <2>1. n - 1 + 1 = n /\ 1 <= n /\ \A i \in 1 .. n : 1 + i - 1 = i
    OBVIOUS
  <2> QED
    BY <1>3, <2>1
<1>5. /\ w \in Seq(Nat) /\ Len(w) = Len(part) + Len(v)
      /\ \A i \in 1 .. Len(part) + Len(v) :
           w[i] = IF i <= Len(part) THEN part[i] ELSE v[i - Len(part)]
  BY <1>1, <1>3, ConcatProperties
<1> HIDE DEF w
<1>6. Len(w) = n + 3 /\ DOMAIN w = 1 .. n + 3
      /\ \A i \in 1 .. n + 3 : w[i] = IF i <= n THEN part[i] ELSE v[i - n]
  BY <1>1, <1>4, <1>5, LenProperties
<1>7. \A i \in 1 .. n : i \in 1 .. n + 3 /\ i <= n
  OBVIOUS
<1>8. \A i \in 1 .. 3 : n + i \in 1 .. n + 3 /\ ~ (n + i <= n) /\ n + i - n = i
  OBVIOUS
<1> QED
  BY <1>4, <1>6, <1>7, <1>8 DEF v, part, w

LEMMA VectorFetched ==
  ASSUME NEW cycles, Len(cycles) \in Nat, DOMAIN cycles = 1 .. Len(cycles)
  PROVE  /\ Fetched(cycles, ResetVector) <=>
              /\ Back(cycles, 2, 65532) /\ Back(cycles, 1, 65533) /\ Back(cycles, 0, 64098)
         /\ Fetched(cycles, ResetVector) /\ Back(cycles, 3, 65532) =>
              Fetched(cycles, SubSeq(ResetVector, 1, 1) \o ResetVector)
         /\ Fetched(cycles, ResetVector) /\ Back(cycles, 4, 65532) /\ Back(cycles, 3, 65533) =>
              Fetched(cycles, SubSeq(ResetVector, 1, 2) \o ResetVector)
<1> DEFINE n == Len(cycles)
           At(i, a) == cycles[i].mode = "ReadMem" /\ cycles[i].address = a
<1>3. \A k, a : Back(cycles, k, a) <=> n - k \in 1 .. n /\ At(n - k, a)
  BY DEF Back
<1>4. \A a, b, c : Fetched(cycles, <<a, b, c>>) <=>
                     n - 2 >= 1 /\ At(n - 2, a) /\ At(n - 1, b) /\ At(n, c)
  <2> SUFFICES ASSUME NEW a, NEW b, NEW c
               PROVE  Fetched(cycles, <<a, b, c>>) <=>
                        n - 2 >= 1 /\ At(n - 2, a) /\ At(n - 1, b) /\ At(n, c)
    OBVIOUS
  <2>1. /\ Len(<<a, b, c>>) = 3 /\ DOMAIN <<a, b, c>> = {1, 2, 3}
        /\ <<a, b, c>>[1] = a /\ <<a, b, c>>[2] = b /\ <<a, b, c>>[3] = c
    OBVIOUS
  <2>2. Fetched(cycles, <<a, b, c>>) <=>
          n - 3 >= 0 /\ At(n - 3 + 1, a) /\ At(n - 3 + 2, b) /\ At(n - 3 + 3, c)
    BY <2>1 DEF Fetched
  <2>3. n - 3 + 1 = n - 2 /\ n - 3 + 2 = n - 1 /\ n - 3 + 3 = n /\ (n - 3 >= 0 <=> n - 2 >= 1)
    OBVIOUS
  <2> HIDE DEF n, At
  <2> QED
    BY <2>2, <2>3
<1>5. Fetched(cycles, SubSeq(ResetVector, 1, 1) \o ResetVector) <=>
        /\ n - 3 >= 1 /\ At(n - 3, 65532)
        /\ At(n - 2, 65532) /\ At(n - 1, 65533) /\ At(n, 64098)
  <2> DEFINE w == SubSeq(ResetVector, 1, 1) \o ResetVector
  <2>1. /\ Len(w) = 1 + 3 /\ DOMAIN w = 1 .. 1 + 3
        /\ \A i \in 1 .. 1 : w[i] = ResetVector[i]
        /\ \A i \in 1 .. 3 : w[1 + i] = ResetVector[i]
    BY VectorTwice
  <2> HIDE DEF w
  <2>2. /\ Len(w) = 4 /\ DOMAIN w = {1, 2, 3, 4}
        /\ w[1] = 65532 /\ w[2] = 65532 /\ w[3] = 65533 /\ w[4] = 64098
    <3>1. /\ 1 \in 1 .. 1 /\ 1 + 3 = 4 /\ 1 .. 4 = {1, 2, 3, 4}
          /\ 1 + 1 = 2 /\ 1 + 2 = 3 /\ {1, 2, 3} \subseteq 1 .. 3
      OBVIOUS
    <3>2. w[1] = ResetVector[1] /\ w[2] = ResetVector[1]
          /\ w[3] = ResetVector[2] /\ w[4] = ResetVector[3]
      BY <2>1, <3>1
    <3> QED
      BY <2>1, <3>1, <3>2 DEF ResetVector
  <2>3. Fetched(cycles, w) <=>
          /\ n - 4 >= 0 /\ At(n - 4 + 1, 65532) /\ At(n - 4 + 2, 65532)
          /\ At(n - 4 + 3, 65533) /\ At(n - 4 + 4, 64098)
    BY <2>2 DEF Fetched
  <2>4. /\ n - 4 + 1 = n - 3 /\ n - 4 + 2 = n - 2 /\ n - 4 + 3 = n - 1 /\ n - 4 + 4 = n
        /\ (n - 4 >= 0 <=> n - 3 >= 1)
    OBVIOUS
  <2> HIDE DEF n, At
  <2> QED
    BY <2>3, <2>4 DEF w
<1>6. Fetched(cycles, SubSeq(ResetVector, 1, 2) \o ResetVector) <=>
        /\ n - 4 >= 1 /\ At(n - 4, 65532) /\ At(n - 3, 65533)
        /\ At(n - 2, 65532) /\ At(n - 1, 65533) /\ At(n, 64098)
  <2> DEFINE w == SubSeq(ResetVector, 1, 2) \o ResetVector
  <2>1. /\ Len(w) = 2 + 3 /\ DOMAIN w = 1 .. 2 + 3
        /\ \A i \in 1 .. 2 : w[i] = ResetVector[i]
        /\ \A i \in 1 .. 3 : w[2 + i] = ResetVector[i]
    BY VectorTwice
  <2> HIDE DEF w
  <2>2. /\ Len(w) = 5 /\ DOMAIN w = {1, 2, 3, 4, 5}
        /\ w[1] = 65532 /\ w[2] = 65533
        /\ w[3] = 65532 /\ w[4] = 65533 /\ w[5] = 64098
    <3>1. /\ {1, 2} \subseteq 1 .. 2 /\ 2 + 3 = 5 /\ 1 .. 5 = {1, 2, 3, 4, 5}
          /\ 2 + 1 = 3 /\ 2 + 2 = 4 /\ {1, 2, 3} \subseteq 1 .. 3
      OBVIOUS
    <3>2. /\ w[1] = ResetVector[1] /\ w[2] = ResetVector[2]
          /\ w[3] = ResetVector[1] /\ w[4] = ResetVector[2] /\ w[5] = ResetVector[3]
      BY <2>1, <3>1
    <3> QED
      BY <2>1, <3>1, <3>2 DEF ResetVector
  <2>3. Fetched(cycles, w) <=>
          /\ n - 5 >= 0 /\ At(n - 5 + 1, 65532) /\ At(n - 5 + 2, 65533)
          /\ At(n - 5 + 3, 65532) /\ At(n - 5 + 4, 65533) /\ At(n - 5 + 5, 64098)
    BY <2>2 DEF Fetched
  <2>4. /\ n - 5 + 1 = n - 4 /\ n - 5 + 2 = n - 3 /\ n - 5 + 3 = n - 2 /\ n - 5 + 4 = n - 1
        /\ n - 5 + 5 = n /\ (n - 5 >= 0 <=> n - 4 >= 1)
    OBVIOUS
  <2> HIDE DEF n, At
  <2> QED
    BY <2>3, <2>4 DEF w
<1>7. n \in Nat
  OBVIOUS
<1> HIDE DEF At, n
<1>8. Fetched(cycles, ResetVector) <=>
        /\ Back(cycles, 2, 65532) /\ Back(cycles, 1, 65533) /\ Back(cycles, 0, 64098)
  <2>1. n - 0 = n /\ (n - 2 >= 1 => n - 2 \in 1 .. n /\ n - 1 \in 1 .. n /\ n \in 1 .. n)
        /\ (n - 2 \in 1 .. n => n - 2 >= 1)
    BY <1>7
  <2> QED
    BY <1>3, <1>4, <2>1 DEF ResetVector
<1>9. n - 0 = n /\ (n - 3 \in 1 .. n => n - 3 >= 1) /\ (n - 4 \in 1 .. n => n - 4 >= 1)
  BY <1>7
<1> QED
  <2>1. ASSUME Fetched(cycles, ResetVector)
        PROVE  At(n - 2, 65532) /\ At(n - 1, 65533) /\ At(n, 64098)
    BY <1>3, <1>8, <1>9, <2>1
  <2>2. Back(cycles, 3, 65532) => n - 3 >= 1 /\ At(n - 3, 65532)
    BY <1>3, <1>9
  <2>3. Back(cycles, 3, 65533) => At(n - 3, 65533)
    BY <1>3
  <2>4. Back(cycles, 4, 65532) => n - 4 >= 1 /\ At(n - 4, 65532)
    BY <1>3, <1>9
  <2>5. Fetched(cycles, ResetVector) /\ Back(cycles, 3, 65532) =>
          Fetched(cycles, SubSeq(ResetVector, 1, 1) \o ResetVector)
    BY <1>5, <2>1, <2>2
  <2>6. Fetched(cycles, ResetVector) /\ Back(cycles, 4, 65532) /\ Back(cycles, 3, 65533) =>
          Fetched(cycles, SubSeq(ResetVector, 1, 2) \o ResetVector)
    BY <1>6, <2>1, <2>3, <2>4
  <2> QED
    BY <1>8, <2>5, <2>6

\* A reset is taken for one exactly when the vector was fetched.
LEMMA ResetCycleExact ==
  ASSUME NEW cycles, NEW e, NEW longer, Extended(longer, cycles, e),
         NEW s, ResetKnown(s.reset_state, cycles)
  PROVE  /\ ResetCycle(s, e.mode, e.address) => Fetched(longer, ResetVector)
         /\ ( /\ Fetched(longer, ResetVector)
              /\ \A n \in 1 .. 2 : ~ Fetched(longer, SubSeq(ResetVector, 1, n) \o ResetVector) )
              => ResetCycle(s, e.mode, e.address)
<1>1. Len(longer) \in Nat /\ DOMAIN longer = 1 .. Len(longer)
  BY DEF Extended
<1>2. \A a : /\ Back(longer, 0, a) <=> e.mode = "ReadMem" /\ e.address = a
             /\ Back(longer, 1, a) <=> Back(cycles, 0, a)
             /\ Back(longer, 2, a) <=> Back(cycles, 1, a)
             /\ Back(longer, 3, a) <=> Back(cycles, 2, a)
             /\ Back(longer, 4, a) <=> Back(cycles, 3, a)
  BY BackExtended
<1> DEFINE Twice1 == Fetched(longer, SubSeq(ResetVector, 1, 1) \o ResetVector)
           Twice2 == Fetched(longer, SubSeq(ResetVector, 1, 2) \o ResetVector)
<1>3. (\A n \in 1 .. 2 : ~ Fetched(longer, SubSeq(ResetVector, 1, n) \o ResetVector))
        => ~ Twice1 /\ ~ Twice2
  OBVIOUS
<1>4. /\ Fetched(longer, ResetVector) <=>
           /\ Back(longer, 2, 65532) /\ Back(longer, 1, 65533) /\ Back(longer, 0, 64098)
      /\ Fetched(longer, ResetVector) /\ Back(longer, 3, 65532) => Twice1
      /\ Fetched(longer, ResetVector) /\ Back(longer, 4, 65532) /\ Back(longer, 3, 65533)
           => Twice2
  BY <1>1, VectorFetched
<1> HIDE DEF Twice1, Twice2
<1>5. ResetCycle(s, e.mode, e.address) => Fetched(longer, ResetVector)
  BY <1>2, <1>4 DEF ResetKnown, ResetCycle
<1>6. Fetched(longer, ResetVector) /\ ~ Twice1 /\ ~ Twice2
        => ResetCycle(s, e.mode, e.address)
  BY <1>2, <1>4 DEF ResetKnown, ResetCycle
<1> QED
  BY <1>3, <1>5, <1>6

\* The recogniser of the reset knows the last reads.
ResetInv == HistoryInv /\ ResetKnown(dev.reset_state, log)

\* One cycle of a program, and the entry that it makes in the log.
LEMMA LoggedCycle ==
  ASSUME ResetInv, NEW x \in Words, Logged(x[1], x[2], x[3])
  PROVE  \E e : /\ log' = Append(log, e) /\ Extended(log', log, e)
                /\ e.mode = x[1] /\ e.address = x[2] /\ e.address \in Address
                /\ e.mode \in {"WriteDev", "ReadDev"} => e.address \in DeviceSelect
                /\ dev' = AfterCycle(dev, e.mode, e.address, e.data)
                /\ e.reset \in BOOLEAN /\ e.machine = dev.current_machine
                /\ e.reset <=> ResetCycle(dev, e.mode, e.address)
                /\ Locks(dev, dev', e.mode, e.address, e.data)
                /\ dev'.reset_state = NextReset(dev.reset_state, e.mode, e.address)
                /\ ResetCycle(dev, e.mode, e.address) => ClosedByReset(dev')
<1> DEFINE mode == x[1]
           address == x[2]
           data == x[3]
           reset == Resets(mode, address)
           e == [mode |-> mode, address |-> address, data |-> data,
                 machine |-> dev.current_machine, reset |-> reset]
<1>1. /\ address \in Address
      /\ mode \in {"WriteDev", "ReadDev"} => address \in DeviceSelect
  <2>1. OnTheBus(mode, address, data)
    BY WordsAssumption
  <2> HIDE DEF mode, address, data, e
  <2> QED
    BY <2>1, Zenon DEF OnTheBus
<1>2. /\ dev' = AfterCycle(dev, mode, address, data)
      /\ log' = Append(log, e)
  BY DEF Logged, BusCycle, AfterCycle
<1>3. reset \in BOOLEAN /\ (reset <=> ResetCycle(dev, mode, address))
  BY DEF Resets, ResetCycle
<1> HIDE DEF mode, address, data, reset
<1>4. /\ e.reset = reset /\ e.mode = mode /\ e.address = address /\ e.data = data
      /\ e.machine = dev.current_machine
  OBVIOUS
<1> HIDE DEF e
<1>5. /\ Locks(dev, dev', mode, address, data)
      /\ dev'.reset_state = NextReset(dev.reset_state, mode, address)
      /\ ResetCycle(dev, mode, address) => ClosedByReset(dev')
  BY <1>1, <1>2, WholeCycle, ResetOfCycle DEF ResetInv, HistoryInv
<1>6. Extended(log', log, e)
  BY <1>2, AppendExtends DEF ResetInv, HistoryInv
<1> QED
  BY <1>1, <1>2, <1>3, <1>4, <1>5, <1>6 DEF mode, address

LEMMA ResetInvInit == HistoryInit => ResetInv
<1> SUFFICES ASSUME HistoryInit
             PROVE  ResetInv
  OBVIOUS
<1>1. PICK c \in Saved : dev = BusPowerOn([FreshFlash EXCEPT !.config = c])
  BY DEF HistoryInit, Init, PoweredOn
<1>2. dev.reset_state = 0
  BY <1>1, PowerOnState
<1>3. DOMAIN log = {}
  BY DEF HistoryInit
<1> QED
  BY <1>2, <1>3, HistoryInvInit, ResetNotStarted DEF ResetInv

LEMMA ResetInvNext == ResetInv /\ [HistoryNext]_vars => ResetInv'
<1> SUFFICES ASSUME ResetInv, [HistoryNext]_vars
             PROVE  ResetInv'
  OBVIOUS
<1>1. HistoryInv'
  BY HistoryInvNext DEF ResetInv
<1>2. CASE UNCHANGED vars
  BY <1>1, <1>2 DEF vars, ResetInv
<1>3. ASSUME NEW x \in Words, Logged(x[1], x[2], x[3])
      PROVE  ResetInv'
  <2>1. PICK e : /\ Extended(log', log, e)
                 /\ dev'.reset_state = NextReset(dev.reset_state, e.mode, e.address)
    BY <1>3, LoggedCycle
  <2>2. ResetKnown(NextReset(dev.reset_state, e.mode, e.address), log')
    BY <2>1, ResetExtended DEF ResetInv
  <2> QED
    BY <1>1, <2>1, <2>2 DEF ResetInv
<1> QED
  BY <1>2, <1>3 DEF HistoryNext

\* What a reset does, and when: one step.
ResetStep ==
  /\ log'[Len(log')].reset => Fetched(log', ResetVector)
  /\ ( /\ Fetched(log', ResetVector)
       /\ \A n \in 1 .. 2 : ~ Fetched(log', SubSeq(ResetVector, 1, n) \o ResetVector) )
       => /\ dev'.dev_config_lock = Locked /\ dev'.romx_unlocked = 0
          /\ "MENU_ENABLE" \notin dev'.internal_flags
          /\ dev'.soft_switches = {"TEXT", "V7_MODE1", "V7_MODE2"}
  /\ dev.dev_config_lock = Unlocked /\ dev'.dev_config_lock # Unlocked
       => \/ Fetched(log', ResetVector)
          \/ log'[Len(log')].mode = "WriteDev"

LEMMA ResetStepNext == ResetInv /\ [HistoryNext]_vars => [ResetStep]_vars
<1> SUFFICES ASSUME ResetInv, NEW x \in Words, Logged(x[1], x[2], x[3])
             PROVE  ResetStep
  BY DEF HistoryNext
<1>1. PICK e : /\ Extended(log', log, e)
               /\ e.reset <=> ResetCycle(dev, e.mode, e.address)
               /\ Locks(dev, dev', e.mode, e.address, e.data)
               /\ ResetCycle(dev, e.mode, e.address) => ClosedByReset(dev')
  BY LoggedCycle
<1>2. log'[Len(log')] = e
  BY <1>1 DEF Extended
<1>3. /\ ResetCycle(dev, e.mode, e.address) => Fetched(log', ResetVector)
      /\ ( /\ Fetched(log', ResetVector)
           /\ \A n \in 1 .. 2 : ~ Fetched(log', SubSeq(ResetVector, 1, n) \o ResetVector) )
           => ResetCycle(dev, e.mode, e.address)
  BY <1>1, ResetCycleExact DEF ResetInv
<1>4. dev'.dev_config_lock = dev.dev_config_lock
        \/ ResetCycle(dev, e.mode, e.address) \/ e.mode = "WriteDev"
  BY <1>1 DEF Locks, LockWritten
<1>5. ResetCycle(dev, e.mode, e.address) =>
        /\ dev'.dev_config_lock = Locked /\ dev'.romx_unlocked = 0
        /\ "MENU_ENABLE" \notin dev'.internal_flags
        /\ dev'.soft_switches = {"TEXT", "V7_MODE1", "V7_MODE2"}
  BY <1>1 DEF Locks, ClosedByReset
<1> QED
  BY <1>1, <1>2, <1>3, <1>4, <1>5, Zenon DEF ResetStep

\* A reset is seen when the vector was fetched and only then, and closes the menu and
\* the locks; nothing but a reset and a write to the card closes the registers
\* (businterface.c, reset_detection), for every program and every length of it.
THEOREM ResetAlwaysExact == HistorySpec => ResetExact
<1>1. HistoryInit => ResetInv
  BY ResetInvInit
<1>2. ResetInv /\ [HistoryNext]_vars => ResetInv' /\ [ResetStep]_vars
  BY ResetInvNext, ResetStepNext
<1>3. HistorySpec => [][ResetStep]_vars
  BY <1>1, <1>2, PTL DEF HistorySpec
<1> QED
  BY <1>3 DEF ResetExact, ResetStep

-----------------------------------------------------------------------------
(* The key of the ROMX opens the font selection.                           *)

\* The i-th cycle reads CA, and no other CA comes just before it.
Fresh(cycles, i) ==
  Low(cycles, i) /\ ~ \E h \in 1 .. i : Low(cycles, h) /\ Successive(cycles, h, i)

\* The recogniser has counted the parts of a key that begins afresh.
RomxCounted(v, cycles) ==
  /\ \A i \in DOMAIN cycles : Fresh(cycles, i) /\ Quiet(cycles, i) => v = 1
  /\ \A i, j \in DOMAIN cycles :
       /\ Fresh(cycles, i) /\ Low(cycles, j)
       /\ Successive(cycles, i, j) /\ Quiet(cycles, j)
       => v = 2

\* A key that the last cycle completes.
KeyGiven(cycles) ==
  \E i, j \in 1 .. Len(cycles) : Fresh(cycles, i) /\ Key(cycles, i, j, Len(cycles))

LEMMA RomxCountedExtended ==
  ASSUME NEW cycles, NEW e, NEW longer, Extended(longer, cycles, e),
         NEW v, RomxKnown(v, cycles), RomxCounted(v, cycles), NEW w,
         IF KeyRead(e.mode, e.address, e.machine)
         THEN w = NextRomx(v, e.address % 256) ELSE w = v \/ (v = 3 /\ w = 0)
  PROVE  RomxCounted(w, longer) /\ (KeyGiven(longer) => w = 3)
<1> DEFINE n == Len(cycles)
           last == n + 1
<1>1. /\ n \in Nat /\ DOMAIN cycles = 1 .. n /\ DOMAIN longer = 1 .. last
      /\ Len(longer) = last
  BY DEF Extended
<1>2. /\ 1 .. last = (1 .. n) \cup {last} /\ last \in Int
      /\ \A i, j \in 1 .. last : i < j => i \in 1 .. n
      /\ \A i \in 1 .. n : \A h \in 1 .. i : h \in 1 .. n
  BY <1>1
<1>3. /\ \A i \in 1 .. n : Low(longer, i) <=> Low(cycles, i)
      /\ KeyPageRead(longer, last) <=> KeyRead(e.mode, e.address, e.machine)
      /\ Low(longer, last) <=> KeyPageRead(longer, last) /\ e.address % 256 = KeyLow
      /\ High(longer, last) <=> KeyPageRead(longer, last) /\ e.address % 256 = KeyHigh
  BY PageExtended
<1>4. /\ \A i, j \in 1 .. n : Successive(cycles, i, j) <=> Successive(longer, i, j)
      /\ \A i \in 1 .. n : Quiet(cycles, i) <=> Successive(longer, i, last)
      /\ \A i \in 1 .. n : Quiet(longer, i) <=> Quiet(cycles, i) /\ ~ KeyPageRead(longer, last)
  BY PageExtended
<1>5. \A i \in 1 .. n : Fresh(longer, i) <=> Fresh(cycles, i)
  BY <1>2, <1>3, <1>4 DEF Fresh
<1>6. \A i, j \in 1 .. last : Successive(longer, i, j) => i \in 1 .. n
  BY <1>2 DEF Successive
<1>7. /\ \A i \in 1 .. n : Fresh(cycles, i) /\ Quiet(cycles, i) => v = 1
      /\ \A i, j \in 1 .. n :
           /\ Fresh(cycles, i) /\ Low(cycles, j)
           /\ Successive(cycles, i, j) /\ Quiet(cycles, j)
           => v = 2
  BY <1>1 DEF RomxCounted
<1>8. v = 1 => \E i \in 1 .. n : Low(cycles, i) /\ Quiet(cycles, i)
  BY <1>1 DEF RomxKnown
<1>9. Fresh(longer, last) => v # 1
  <2> SUFFICES ASSUME v = 1, Fresh(longer, last)
               PROVE  FALSE
    OBVIOUS
  <2>1. PICK i \in 1 .. n : Low(cycles, i) /\ Quiet(cycles, i)
    BY <1>8
  <2>2. i \in 1 .. last /\ Low(longer, i) /\ Successive(longer, i, last)
    BY <1>2, <1>3, <1>4, <2>1
  <2> QED
    BY <2>2 DEF Fresh
<1> DEFINE low == e.address % 256
<1>10. KeyPageRead(longer, last) =>
         w = IF low = KeyLow THEN (IF v = 1 THEN 2 ELSE 1)
             ELSE IF low = KeyHigh THEN (IF v = 2 THEN 3 ELSE 0)
             ELSE (IF v = 3 THEN 3 ELSE 0)
  <2>1. KeyPageRead(longer, last) => w = NextRomx(v, low)
    BY <1>3
  <2>2. KeyLow # KeyHigh
    BY DEF KeyLow, KeyHigh
  <2> HIDE DEF low
  <2>3. CASE low = KeyLow
    BY <2>1, <2>2, <2>3 DEF NextRomx
  <2>4. CASE low = KeyHigh
    BY <2>1, <2>2, <2>4 DEF NextRomx
  <2>5. CASE low # KeyLow /\ low # KeyHigh
    BY <2>1, <2>5 DEF NextRomx
  <2> QED
    BY <2>3, <2>4, <2>5
<1>11. ~ KeyPageRead(longer, last) => w = v \/ (v = 3 /\ w = 0)
  BY <1>3
<1>12. \A i \in 1 .. last : Fresh(longer, i) => Low(longer, i)
  BY DEF Fresh
<1> HIDE DEF n, last, low
<1>13. KeyLow # KeyHigh
  BY DEF KeyLow, KeyHigh
<1>14. ASSUME NEW i \in 1 .. last, Fresh(longer, i), Quiet(longer, i)
       PROVE  w = 1
  <2>1. CASE i \in 1 .. n
    BY <1>4, <1>5, <1>7, <1>11, <1>14, <2>1
  <2>2. CASE i = last
    BY <1>3, <1>9, <1>10, <1>12, <1>14, <2>2 DEF low
  <2> QED
    BY <1>2, <2>1, <2>2
<1>15. ASSUME NEW i \in 1 .. last, NEW j \in 1 .. last, Fresh(longer, i), Low(longer, j),
              Successive(longer, i, j), Quiet(longer, j)
       PROVE  w = 2
  <2>1. i \in 1 .. n /\ Fresh(cycles, i)
    BY <1>5, <1>6, <1>15
  <2>2. CASE j \in 1 .. n
    BY <1>3, <1>4, <1>7, <1>11, <1>15, <2>1, <2>2
  <2>3. CASE j = last
    <3>1. v = 1
      BY <1>4, <1>7, <1>15, <2>1, <2>3
    <3> QED
      BY <1>3, <1>10, <1>15, <2>3, <3>1 DEF low
  <2> QED
    BY <1>2, <2>2, <2>3
<1>16. ASSUME NEW i \in 1 .. last, NEW j \in 1 .. last, Fresh(longer, i),
              Key(longer, i, j, last)
       PROVE  w = 3
  <2>1. /\ Low(longer, j) /\ High(longer, last)
        /\ Successive(longer, i, j) /\ Successive(longer, j, last)
    BY <1>16 DEF Key
  <2>2. i \in 1 .. n /\ j \in 1 .. n /\ Fresh(cycles, i)
    BY <1>2, <1>5, <1>6, <1>16, <2>1
  <2>3. v = 2
    BY <1>3, <1>4, <1>7, <2>1, <2>2
  <2> QED
    BY <1>3, <1>10, <1>13, <2>1, <2>3 DEF low
<1> QED
  BY <1>1, <1>14, <1>15, <1>16 DEF RomxCounted, KeyGiven

LEMMA RomxNotStarted ==
  ASSUME NEW v, NEW cycles, DOMAIN cycles = {}
  PROVE  RomxCounted(v, cycles)
BY DEF RomxCounted

\* The recogniser of the key knows the reads of the key page.
RomxInv == ResetInv /\ RomxCounted(dev.romx_unlocked, Recent)

\* What a cycle does to the recogniser of the key, in terms of the history.
LEMMA RomxStepKnown ==
  ASSUME RomxInv, NEW x \in Words, Logged(x[1], x[2], x[3])
  PROVE  /\ RomxCounted(dev'.romx_unlocked, Recent')
         /\ KeyGiven(Recent') => dev'.romx_unlocked = 3
<1>1. PICK e : /\ log' = Append(log, e) /\ Extended(log', log, e)
               /\ e.reset \in BOOLEAN
               /\ e.reset <=> ResetCycle(dev, e.mode, e.address)
               /\ e.machine = dev.current_machine
               /\ Locks(dev, dev', e.mode, e.address, e.data)
  BY LoggedCycle DEF RomxInv
<1>2. IF e.reset THEN DOMAIN Since(log') = {} /\ Len(Since(log')) = 0
      ELSE Extended(Since(log'), Since(log), e)
  BY <1>1, SinceExtended DEF RomxInv, ResetInv, HistoryInv
<1>3. CASE e.reset
  <2>1. RomxCounted(dev'.romx_unlocked, Since(log'))
    BY <1>2, <1>3, RomxNotStarted
  <2>2. ~ KeyGiven(Since(log'))
    <3>1. \A i \in 1 .. 0 : FALSE
      OBVIOUS
    <3> QED
      BY <1>2, <1>3, <3>1 DEF KeyGiven
  <2> QED
    BY <2>1, <2>2 DEF Recent
<1>4. CASE ~ e.reset
  <2> DEFINE v == dev.romx_unlocked
             w == dev'.romx_unlocked
  <2>1. RomxKnown(v, Since(log)) /\ RomxCounted(v, Since(log))
    BY DEF RomxInv, ResetInv, HistoryInv, Recent
  <2>2. IF KeyRead(e.mode, e.address, e.machine)
        THEN w = NextRomx(v, e.address % 256) ELSE w = v \/ (v = 3 /\ w = 0)
    BY <1>1, <1>4 DEF Locks, RomxKept
  <2>3. Extended(Since(log'), Since(log), e)
    BY <1>2, <1>4
  <2> HIDE DEF v, w
  <2>4. RomxCounted(w, Since(log')) /\ (KeyGiven(Since(log')) => w = 3)
    BY <2>1, <2>2, <2>3, RomxCountedExtended
  <2> QED
    BY <2>4 DEF Recent, w
<1> QED
  BY <1>1, <1>3, <1>4

LEMMA RomxInvInit == HistoryInit => RomxInv
<1> SUFFICES ASSUME HistoryInit
             PROVE  RomxInv
  OBVIOUS
<1>1. log = << >> /\ DOMAIN log = {} /\ Len(log) = 0
  BY DEF HistoryInit
<1>2. Resettings(log) = {}
  BY <1>1 DEF Resettings
<1>3. Recent = << >>
  BY <1>1, <1>2, SubSeqEmpty DEF Recent, Since, LastReset
<1>4. DOMAIN Recent = {}
  BY <1>3
<1> QED
  BY <1>4, ResetInvInit, RomxNotStarted DEF RomxInv

LEMMA RomxInvNext == RomxInv /\ [HistoryNext]_vars => RomxInv'
<1> SUFFICES ASSUME RomxInv, [HistoryNext]_vars
             PROVE  RomxInv'
  OBVIOUS
<1>1. ResetInv'
  BY ResetInvNext DEF RomxInv
<1>2. CASE UNCHANGED vars
  <2>1. dev' = dev /\ log' = log
    BY <1>2 DEF vars
  <2> QED
    BY <1>1, <2>1 DEF RomxInv, Recent
<1>3. CASE \E x \in Words : Logged(x[1], x[2], x[3])
  BY <1>1, <1>3, RomxStepKnown DEF RomxInv
<1> QED
  BY <1>2, <1>3 DEF HistoryNext

\* What a completed key does: one step.
RomxStep ==
  LET k == Len(Recent')
  IN  /\ \E i, j \in 1 .. k :
           /\ Key(Recent', i, j, k)
           /\ ~ \E h \in 1 .. i : Low(Recent', h) /\ Successive(Recent', h, i)
      => dev'.romx_unlocked = 3

\* The key of the ROMX opens the font selection, whatever the bus carried before it,
\* unless another CA comes first (businterface.c, check_romx_read): for every program
\* and every length of it.
THEOREM RomxAlwaysOpens == HistorySpec => RomxOpens
<1>1. RomxInv /\ HistoryNext => RomxStep
  <2> SUFFICES ASSUME RomxInv, HistoryNext
               PROVE  RomxStep
    OBVIOUS
  <2>1. KeyGiven(Recent') => dev'.romx_unlocked = 3
    BY RomxStepKnown DEF HistoryNext
  <2>2. ASSUME NEW i \in 1 .. Len(Recent'), NEW j \in 1 .. Len(Recent'),
               Key(Recent', i, j, Len(Recent')),
               ~ \E h \in 1 .. i : Low(Recent', h) /\ Successive(Recent', h, i)
        PROVE  KeyGiven(Recent')
    <3>1. Fresh(Recent', i)
      BY <2>2 DEF Fresh, Key
    <3> QED
      BY <2>2, <3>1 DEF KeyGiven
  <2> QED
    BY <2>1, <2>2 DEF RomxStep
<1>2. HistorySpec => [][RomxStep]_vars
  BY <1>1, RomxInvInit, RomxInvNext, PTL DEF HistorySpec
<1> QED
  BY <1>2 DEF RomxOpens, RomxStep

-----------------------------------------------------------------------------
(* The font that the ROMX selects.                                         *)

\* The program reaches neither the card's registers nor the text page of the Apple:
\* a register, or the machine that the screen tells, may choose another font, too.
PlainProgram ==
  \A w \in Words : w[1] # "WriteDev" /\ ~ (w[1] = "WriteMem" /\ w[2] < 2048)

\* From s to t, machine, font and selected bank stay.
SameFont(s, t) ==
  /\ DOMAIN t = DOMAIN s
  /\ t.current_machine = s.current_machine
  /\ t.romx_textbank = s.romx_textbank
  /\ t.cfg_local_charset = s.cfg_local_charset

LEMMA SwitchesKeepFont ==
  ASSUME NEW s, NEW mode, NEW address, NEW data
  PROVE  SameFont(s, apple2_softswitches(s, mode, address, data))
<1>1. \A x, on, name : SameFont(s, x) => SameFont(s, Switched(x, on, name))
  BY DEF SameFont, Switched
<1>2. SameFont(s, s)
  BY DEF SameFont
<1>3. SameFont(s, v7_shift(s))
  BY DEF SameFont, v7_shift
<1> QED
  BY <1>1, <1>2, <1>3, ZenonT(60) DEF apple2_softswitches

LEMMA VidexKeepsFont ==
  ASSUME NEW s, NEW mode, NEW address, NEW data
  PROVE  SameFont(s, videx_access(s, mode, address, data))
<1>1. SameFont(s, s)
  BY DEF SameFont
<1>2. SameFont(s, videx_reg_read(s, address))
  BY DEF SameFont, videx_reg_read
<1>3. SameFont(s, videx_reg_write(s, address, data))
  <2> DEFINE bank == [s EXCEPT !.videx_banknum = Bank(address)]
  <2>1. SameFont(s, bank)
    BY DEF SameFont
  <2> HIDE DEF bank
  <2>2. SameFont(s, [bank EXCEPT !.videx_crtc_idx = data])
        /\ SameFont(s, [bank EXCEPT !.videx_crtc_regs[s.videx_crtc_idx] = data])
    BY <2>1 DEF SameFont
  <2> QED
    BY <2>1, <2>2, Zenon DEF videx_reg_write, bank
<1>4. SameFont(s, videx_c8xx(s, mode, address, data))
  <2>1. SameFont(s, [s EXCEPT !.videx_vterm_mem_selected = FALSE])
        /\ SameFont(s, [s EXCEPT !.videx_vram[Window(s, address)] = data])
    BY DEF SameFont
  <2> QED
    BY <1>1, <2>1 DEF videx_c8xx
<1>5. SameFont(s, [s EXCEPT !.videx_vterm_mem_selected = TRUE])
  BY DEF SameFont
<1> QED
  BY <1>1, <1>2, <1>3, <1>4, <1>5 DEF videx_access

LEMMA RamKeepsFont ==
  ASSUME NEW s, NEW address \in Nat, address >= 2048, NEW data
  PROVE  SameFont(s, ram_write(s, address, data))
<1> DEFINE main == Store(s, "apple_memory", address, data)
           aux  == Store(s, "private_memory", address, data)
           t    == ram_write(s, address, data)
<1>1. SameFont(s, s) /\ SameFont(s, main) /\ SameFont(s, aux)
  BY DEF SameFont, Store
<1> HIDE DEF main, aux, t
<1>2. ~ (address < 512) /\ address >= 512 /\ ~ (address < 2048)
  OBVIOUS
<1>3. CASE Paged(s, address)
  <2>1. t = IF "PAGE_2" \in s.soft_switches THEN aux ELSE main
    BY <1>3 DEF ram_write, t, main, aux
  <2> QED
    BY <1>1, <2>1 DEF t
<1>4. CASE ~ Paged(s, address)
  <2>1. t \in {aux, s, main}
    BY <1>2, <1>4 DEF ram_write, t, main, aux
  <2> QED
    BY <1>1, <2>1 DEF t
<1> QED
  BY <1>3, <1>4

LEMMA ResetKeepsFont ==
  ASSUME NEW s, NEW mode, NEW address
  PROVE  SameFont(s, reset_detection(s, mode, address))
<1> DEFINE t == reset_detection(s, mode, address)
<1>1. SameFont(s, Reset(s))
  BY DEF SameFont, Reset, Flag
<1>2. \A n : SameFont(s, [s EXCEPT !.reset_state = n])
  BY DEF SameFont
<1>3. CASE ResetCycle(s, mode, address)
  <2>1. t = Reset(s)
    BY <1>3 DEF ResetCycle, reset_detection
  <2> QED
    BY <1>1, <2>1
<1>4. CASE ~ ResetCycle(s, mode, address)
  <2>1. \E n \in 0 .. 2 : t = [s EXCEPT !.reset_state = n]
    BY <1>4 DEF ResetCycle, reset_detection
  <2> QED
    BY <1>2, <2>1
<1> QED
  BY <1>3, <1>4

\* A read outside of the key page, with the font selection open.
FontRead(s, mode, address) ==
  /\ mode = "ReadMem" /\ s.current_machine \in {MACHINE_II, MACHINE_IIE}
  /\ ~ KeyRead(mode, address, s.current_machine) /\ s.romx_unlocked = 3

\* What a cycle does to bank and font.
FontStep(s, t, mode, address) ==
  /\ DOMAIN t = DOMAIN s /\ t.current_machine = s.current_machine
  /\ IF FontRead(s, mode, address) /\ BankRead(s.current_machine, address)
     THEN /\ t.romx_textbank = FirstCustom + (address % 16)
          /\ t.cfg_local_charset = s.cfg_local_charset
     ELSE IF FontRead(s, mode, address) /\ CommitRead(s.current_machine, address)
     THEN t.cfg_local_charset = s.romx_textbank /\ t.romx_unlocked = 0
     ELSE SameFont(s, t)

\* The fields that these lemmas speak of are there.
FontReady(s) == {"romx_unlocked", "romx_textbank", "cfg_local_charset"} \subseteq DOMAIN s

LEMMA RomxReadsFont ==
  ASSUME NEW s, FontReady(s), NEW address
  PROVE  FontStep(s, check_romx_read(s, address), "ReadMem", address)
<1> DEFINE m == s.current_machine
           t == check_romx_read(s, address)
<1>1. SameFont(s, s) /\ SameFont(s, romx_key(s, address % 256))
  BY DEF SameFont, romx_key
<1>2. /\ DOMAIN romx_bank(s, address) = DOMAIN s
      /\ romx_bank(s, address).current_machine = m
      /\ romx_bank(s, address).romx_textbank = FirstCustom + (address % 16)
      /\ romx_bank(s, address).cfg_local_charset = s.cfg_local_charset
  BY DEF FontReady, romx_bank
<1>3. /\ DOMAIN romx_commit(s) = DOMAIN s
      /\ romx_commit(s).current_machine = m
      /\ romx_commit(s).cfg_local_charset = s.romx_textbank
      /\ romx_commit(s).romx_unlocked = 0
  BY DEF FontReady, romx_commit
<1> DEFINE key == romx_key(s, address % 256)
           bank == romx_bank(s, address)
           commit == romx_commit(s)
<1> HIDE DEF t, m, key, bank, commit
<1>4. CASE ~ (m \in {MACHINE_II, MACHINE_IIE})
  <2>1. t = s
    BY <1>4 DEF check_romx_read, t, m
  <2> QED
    BY <1>1, <1>4, <2>1 DEF FontStep, FontRead, SameFont, t, m
<1>5. CASE m \in {MACHINE_II, MACHINE_IIE} /\ address \div 256 = RomxPage(m)
  <2>1. t = key
    BY <1>5 DEF check_romx_read, t, m, key
  <2>2. KeyRead("ReadMem", address, m)
    BY <1>5 DEF KeyRead
  <2>3. SameFont(s, t)
    BY <1>1, <2>1 DEF key
  <2> QED
    BY <2>2, <2>3 DEF FontStep, FontRead, SameFont, t, m
<1>6. CASE m \in {MACHINE_II, MACHINE_IIE} /\ address \div 256 # RomxPage(m)
  <2>1. FontRead(s, "ReadMem", address) <=> s.romx_unlocked = 3
    BY <1>6 DEF FontRead, KeyRead, m
  <2>2. CASE s.romx_unlocked = 3 /\ BankRead(m, address)
    <3>1. t = bank
      <4>1. ~ CommitRead(m, address)
        <5>1. 3969 # 3326 /\ 3325 # 3326 /\ 63569 \div 16 # 3969
          OBVIOUS
        <5> QED
          BY <2>2, <5>1 DEF BankRead, CommitRead
      <4> QED
        BY <1>6, <2>2, <4>1 DEF check_romx_read, t, m, bank
    <3> QED
      BY <1>2, <2>1, <2>2, <3>1 DEF FontStep, t, m, bank
  <2>3. CASE s.romx_unlocked = 3 /\ ~ BankRead(m, address) /\ CommitRead(m, address)
    <3>1. t = commit
      BY <1>6, <2>3 DEF check_romx_read, t, m, commit
    <3> QED
      BY <1>3, <2>1, <2>3, <3>1 DEF FontStep, t, m, commit
  <2>4. CASE ~ (s.romx_unlocked = 3 /\ (BankRead(m, address) \/ CommitRead(m, address)))
    <3>1. t = s
      BY <1>6, <2>4 DEF check_romx_read, t, m
    <3> QED
      BY <1>1, <2>1, <2>4, <3>1 DEF FontStep, SameFont, t, m
  <2> QED
    BY <2>2, <2>3, <2>4
<1> QED
  BY <1>4, <1>5, <1>6

LEMMA AccessKeepsKey ==
  ASSUME NEW s, Ready(s), NEW mode, NEW address \in Nat, NEW data,
         mode \in {"WriteDev", "ReadDev"} => address >= 49280
  PROVE  register_access(s, mode, address, data).romx_unlocked = s.romx_unlocked
<1> DEFINE t == register_access(s, mode, address, data)
<1>1. /\ DOMAIN t = DOMAIN s
      /\ t.reset_state = s.reset_state /\ t.romx_unlocked = s.romx_unlocked
      /\ t.dev_config_lock = IF LockWritten(mode, address)
                             THEN NextLock(s.dev_config_lock, data)
                             ELSE s.dev_config_lock
      /\ Closed(s) /\ ~ (mode = "WriteDev" /\ Draws(address % 16, data)) =>
           /\ Closed(t)
           /\ t.apple_memory = s.apple_memory
           /\ t.private_memory = s.private_memory
  BY RegisterAccess
<1> HIDE DEF t
<1> QED
  BY <1>1 DEF t

LEMMA FontOfCycle ==
  ASSUME NEW s, Ready(s), FontReady(s), NEW mode, NEW address \in Address, NEW data,
         mode \in {"WriteDev", "ReadDev"} => address \in DeviceSelect,
         mode # "WriteDev", ~ (mode = "WriteMem" /\ address < 2048)
  PROVE  FontStep(s, AfterCycle(s, mode, address, data), mode, address)
<1> DEFINE seen == IF mode = "ReadMem" THEN check_romx_read(s, address) ELSE s
           e == apple2emulation(s, mode, address, data)
           r == reset_detection(e, mode, address)
           t == AfterCycle(s, mode, address, data)
           Step(u) == FontStep(s, u, mode, address)
           From(u, v) == /\ SameFont(u, v)
                         /\ v.romx_unlocked = u.romx_unlocked \/ v.romx_unlocked = 0
<1> HIDE DEF seen, e, r, t
<1>0. \A u, v : Step(u) /\ From(u, v) => Step(v)
  BY DEF FontStep, SameFont
<1>1. Step(seen) /\ Ready(seen)
  <2>1. CASE mode = "ReadMem"
    <3>1. seen = check_romx_read(s, address)
      BY <2>1 DEF seen
    <3>2. FontStep(s, check_romx_read(s, address), "ReadMem", address)
      BY RomxReadsFont
    <3>3. Ready(check_romx_read(s, address))
      BY RomxRead
    <3> QED
      BY <2>1, <3>1, <3>2, <3>3
  <2>2. CASE mode # "ReadMem"
    BY <2>2 DEF seen, FontStep, FontRead, SameFont
  <2> QED
    BY <2>1, <2>2
<1>2. address \in Nat /\ (mode \in {"WriteDev", "ReadDev"} => address >= 49280)
  BY Addresses, DeviceAddresses
<1>3. From(seen, e)
  <2>1. CASE MemoryWrite(mode, address)
    <3>1. e = ram_write(s, address, data) /\ seen = s
      BY <1>2, <2>1, WriteEmulated DEF MemoryWrite, e, seen
    <3>2. address >= 2048
      BY <1>2, <2>1 DEF MemoryWrite
    <3>3. SameFont(s, ram_write(s, address, data))
      BY <1>2, <3>2, RamKeepsFont
    <3>4. SameLocks(s, ram_write(s, address, data))
      BY <1>2, RamWrite
    <3> QED
      BY <3>1, <3>3, <3>4 DEF SameLocks
  <2>2. CASE ~ MemoryWrite(mode, address) /\ address \in 49152 .. 53247
    <3>1. e = register_access(seen, mode, address, data)
      BY <2>2 DEF apple2emulation, MemoryWrite, e, seen
    <3>2. e.romx_unlocked = seen.romx_unlocked
      BY <1>1, <1>2, <3>1, AccessKeepsKey
    <3>3. SameFont(seen, seen)
      BY DEF SameFont
    <3>4. SameFont(seen, register_access(seen, mode, address, data))
      BY <3>3, SwitchesKeepFont, VidexKeepsFont DEF register_access
    <3> QED
      BY <3>1, <3>2, <3>4
  <2>3. CASE ~ MemoryWrite(mode, address) /\ ~ (address \in 49152 .. 53247)
    <3>1. e = seen
      BY <2>3 DEF apple2emulation, MemoryWrite, e, seen
    <3> QED
      BY <3>1 DEF SameFont
  <2> QED
    BY <2>1, <2>2, <2>3
<1>4. Ready(e)
  <2>1. Emulated(s, e, mode, address, data)
    BY EmulatedCycle DEF e
  <2> QED
    BY <2>1 DEF Emulated, Ready
<1>5. From(e, r)
  <2>1. SameFont(e, r)
    BY ResetKeepsFont DEF r
  <2>2. r.romx_unlocked = e.romx_unlocked \/ r.romx_unlocked = 0
    BY <1>4, ResetChanges DEF r
  <2> QED
    BY <2>1, <2>2
<1>6. From(r, t)
  <2>1. t = [r EXCEPT !.trail = << >>]
    BY DEF AfterCycle, businterface, e, r, t
  <2> HIDE DEF t
  <2> QED
    BY <2>1 DEF SameFont
<1> HIDE DEF Step, From
<1> QED
  BY <1>0, <1>1, <1>3, <1>5, <1>6 DEF Step, t

\* The cycles after the k-th that select a bank, and those that take it for the font.
BankReads(cycles, k) ==
  {i \in k + 1 .. Len(cycles) :
     cycles[i].mode = "ReadMem" /\ BankRead(cycles[i].machine, cycles[i].address)}

CommitReads(cycles, k) ==
  {i \in k + 1 .. Len(cycles) :
     cycles[i].mode = "ReadMem" /\ CommitRead(cycles[i].machine, cycles[i].address)}

\* The bank is the one that was read last since the key, and the key was not used.
BankSince(bank, cycles, k) ==
  /\ CommitReads(cycles, k) = {}
  /\ \A i \in BankReads(cycles, k) :
       (\A j \in BankReads(cycles, k) : j <= i)
         => bank = FirstCustom + (cycles[i].address % 16)

BankKnown(s, cycles) ==
  s.romx_unlocked = 3 =>
    /\ s.current_machine \in {MACHINE_II, MACHINE_IIE}
    /\ \E k \in DOMAIN cycles : OpenSince(cycles, k) /\ BankSince(s.romx_textbank, cycles, k)

\* No address does two of these things.
LEMMA PagesApart ==
  ASSUME NEW address \in Nat, NEW machine \in {MACHINE_II, MACHINE_IIE}
  PROVE  /\ ~ (BankRead(machine, address) /\ CommitRead(machine, address))
         /\ address \div 256 = RomxPage(machine) =>
              ~ BankRead(machine, address) /\ ~ CommitRead(machine, address)
<1>1. MACHINE_II # MACHINE_IIE
  BY DEF MACHINE_II, MACHINE_IIE
<1>2. CASE machine = MACHINE_II
  <2>1. RomxPage(machine) = 202
    BY <1>1, <1>2 DEF RomxPage
  <2> QED
    BY <1>1, <1>2, <2>1 DEF BankRead, CommitRead
<1>3. CASE machine = MACHINE_IIE
  <2>1. RomxPage(machine) = 250
    BY <1>1, <1>3 DEF RomxPage
  <2> QED
    BY <1>3, <2>1 DEF BankRead, CommitRead
<1> QED
  BY <1>2, <1>3

LEMMA ReadsExtended ==
  ASSUME NEW cycles, NEW e, NEW longer, Extended(longer, cycles, e),
         NEW last, last = Len(cycles) + 1, NEW k \in 1 .. Len(cycles)
  PROVE  /\ BankReads(cycles, k) \subseteq 1 .. Len(cycles)
         /\ CommitReads(cycles, k) \subseteq 1 .. Len(cycles)
         /\ BankReads(longer, k) =
              IF e.mode = "ReadMem" /\ BankRead(e.machine, e.address)
              THEN BankReads(cycles, k) \cup {last} ELSE BankReads(cycles, k)
         /\ CommitReads(longer, k) =
              IF e.mode = "ReadMem" /\ CommitRead(e.machine, e.address)
              THEN CommitReads(cycles, k) \cup {last} ELSE CommitReads(cycles, k)
<1> DEFINE n == Len(cycles)
<1>1. /\ n \in Nat /\ Len(longer) = last /\ longer[last] = e
      /\ \A i \in 1 .. n : longer[i] = cycles[i]
  BY DEF Extended
<1>2. /\ k + 1 .. last = (k + 1 .. n) \cup {last}
      /\ k + 1 .. n \subseteq 1 .. n /\ ~ (last \in k + 1 .. n)
  BY <1>1
<1>3. \A i \in k + 1 .. n : longer[i] = cycles[i]
  BY <1>1, <1>2
<1> HIDE DEF n
<1>4. /\ BankReads(longer, k) =
           {i \in (k + 1 .. n) \cup {last} :
              longer[i].mode = "ReadMem" /\ BankRead(longer[i].machine, longer[i].address)}
      /\ CommitReads(longer, k) =
           {i \in (k + 1 .. n) \cup {last} :
              longer[i].mode = "ReadMem" /\ CommitRead(longer[i].machine, longer[i].address)}
  BY <1>1, <1>2 DEF BankReads, CommitReads
<1>5. /\ BankReads(cycles, k) =
           {i \in k + 1 .. n :
              cycles[i].mode = "ReadMem" /\ BankRead(cycles[i].machine, cycles[i].address)}
      /\ CommitReads(cycles, k) =
           {i \in k + 1 .. n :
              cycles[i].mode = "ReadMem" /\ CommitRead(cycles[i].machine, cycles[i].address)}
  BY DEF BankReads, CommitReads, n
<1>6. BankReads(cycles, k) \subseteq 1 .. n /\ CommitReads(cycles, k) \subseteq 1 .. n
  BY <1>2, <1>5
<1>7. BankReads(longer, k) =
        IF e.mode = "ReadMem" /\ BankRead(e.machine, e.address)
        THEN BankReads(cycles, k) \cup {last} ELSE BankReads(cycles, k)
  BY <1>1, <1>3, <1>4, <1>5
<1>8. CommitReads(longer, k) =
        IF e.mode = "ReadMem" /\ CommitRead(e.machine, e.address)
        THEN CommitReads(cycles, k) \cup {last} ELSE CommitReads(cycles, k)
  BY <1>1, <1>3, <1>4, <1>5
<1> QED
  BY <1>6, <1>7, <1>8 DEF n

LEMMA BankExtended ==
  ASSUME NEW cycles, NEW e, NEW longer, Extended(longer, cycles, e),
         e.address \in Address, NEW s, NEW t, e.machine = s.current_machine,
         RomxKnown(s.romx_unlocked, cycles), BankKnown(s, cycles),
         FontStep(s, t, e.mode, e.address),
         IF KeyRead(e.mode, e.address, e.machine)
         THEN t.romx_unlocked = NextRomx(s.romx_unlocked, e.address % 256)
         ELSE RomxKept(s, t)
  PROVE  BankKnown(t, longer)
<1> SUFFICES ASSUME t.romx_unlocked = 3
             PROVE  /\ t.current_machine \in {MACHINE_II, MACHINE_IIE}
                    /\ \E k \in DOMAIN longer :
                         OpenSince(longer, k) /\ BankSince(t.romx_textbank, longer, k)
  BY DEF BankKnown
<1> DEFINE n == Len(cycles)
           last == n + 1
           v == s.romx_unlocked
           low == e.address % 256
<1>1. /\ n \in Nat /\ DOMAIN cycles = 1 .. n /\ DOMAIN longer = 1 .. last
      /\ Len(longer) = last /\ last \in 1 .. last /\ last \in Int
      /\ \A k \in 1 .. n : k \in 1 .. last /\ longer[k] = cycles[k]
      /\ longer[last] = e
  BY DEF Extended
<1>2. /\ KeyPageRead(longer, last) <=> KeyRead(e.mode, e.address, e.machine)
      /\ Low(longer, last) <=> KeyPageRead(longer, last) /\ low = KeyLow
      /\ High(longer, last) <=> KeyPageRead(longer, last) /\ low = KeyHigh
  BY PageExtended
<1>3. t.current_machine = s.current_machine
  BY DEF FontStep
<1>4. e.address \in Nat /\ e.address \div 256 # 256
  BY Addresses
<1>5. ASSUME NEW k \in 1 .. n, OpenSince(cycles, k), BankSince(s.romx_textbank, cycles, k),
             s.current_machine \in {MACHINE_II, MACHINE_IIE},
             ~ Low(longer, last), ~ High(longer, last), v = 3
      PROVE  \E h \in DOMAIN longer :
               OpenSince(longer, h) /\ BankSince(t.romx_textbank, longer, h)
  <2>1. OpenSince(longer, k)
    BY <1>5, OpenExtended
  <2>2. /\ BankReads(cycles, k) \subseteq 1 .. n
        /\ BankReads(longer, k) =
             IF e.mode = "ReadMem" /\ BankRead(e.machine, e.address)
             THEN BankReads(cycles, k) \cup {last} ELSE BankReads(cycles, k)
        /\ CommitReads(longer, k) =
             IF e.mode = "ReadMem" /\ CommitRead(e.machine, e.address)
             THEN CommitReads(cycles, k) \cup {last} ELSE CommitReads(cycles, k)
    BY <1>5, ReadsExtended
  <2>3. ~ (BankRead(e.machine, e.address) /\ CommitRead(e.machine, e.address))
        /\ (KeyRead(e.mode, e.address, e.machine) =>
              ~ BankRead(e.machine, e.address) /\ ~ CommitRead(e.machine, e.address))
    BY <1>4, <1>5, PagesApart DEF KeyRead
  <2>4. ~ (e.mode = "ReadMem" /\ CommitRead(e.machine, e.address))
    <3> SUFFICES ASSUME e.mode = "ReadMem", CommitRead(e.machine, e.address)
                 PROVE  FALSE
      OBVIOUS
    <3>1. FontRead(s, e.mode, e.address)
      BY <1>5, <2>3 DEF FontRead, v
    <3> QED
      BY <2>3, <3>1 DEF FontStep
  <2>5. CommitReads(longer, k) = {}
    BY <1>5, <2>2, <2>4 DEF BankSince
  <2> HIDE DEF n, last, v, low
  <2>6. CASE e.mode = "ReadMem" /\ BankRead(e.machine, e.address)
    <3>1. FontRead(s, e.mode, e.address)
      BY <1>5, <2>3, <2>6 DEF FontRead, v
    <3>2. t.romx_textbank = FirstCustom + (e.address % 16)
      BY <2>6, <3>1 DEF FontStep
    <3>3. \A i \in BankReads(longer, k) :
            (\A j \in BankReads(longer, k) : j <= i) => i = last
      <4>1. \A i \in 1 .. n : ~ (last <= i)
        BY <1>1 DEF last
      <4> QED
        BY <2>2, <2>6, <4>1
    <3>4. BankSince(t.romx_textbank, longer, k)
      BY <1>1, <2>5, <3>2, <3>3 DEF BankSince
    <3> QED
      BY <1>1, <1>5, <2>1, <3>4
  <2>7. CASE ~ (e.mode = "ReadMem" /\ BankRead(e.machine, e.address))
    <3>1. t.romx_textbank = s.romx_textbank
      BY <2>4, <2>7 DEF FontStep, FontRead, SameFont
    <3>2. BankReads(longer, k) = BankReads(cycles, k)
      BY <2>2, <2>7
    <3>3. \A i \in BankReads(cycles, k) : longer[i] = cycles[i]
      BY <1>1, <2>2
    <3>4. BankSince(t.romx_textbank, longer, k)
      BY <1>5, <2>5, <3>1, <3>2, <3>3 DEF BankSince
    <3> QED
      BY <1>1, <1>5, <2>1, <3>4
  <2> QED
    BY <2>6, <2>7
<1>6. v = 3 => /\ s.current_machine \in {MACHINE_II, MACHINE_IIE}
               /\ \E k \in 1 .. n : OpenSince(cycles, k)
                                    /\ BankSince(s.romx_textbank, cycles, k)
  BY <1>1 DEF BankKnown
<1>7. CASE ~ KeyRead(e.mode, e.address, e.machine)
  <2>1. v = 3 /\ ~ Low(longer, last) /\ ~ High(longer, last)
    BY <1>2, <1>7 DEF RomxKept
  <2> QED
    BY <1>3, <1>5, <1>6, <2>1
<1>8. CASE KeyRead(e.mode, e.address, e.machine)
  <2>1. s.current_machine \in {MACHINE_II, MACHINE_IIE}
    BY <1>4, <1>8 DEF KeyRead, RomxPage
  <2>2. NextRomx(v, low) = 3 /\ KeyLow # KeyHigh
    BY <1>8 DEF KeyLow, KeyHigh
  <2>3. RomxKnown(v, cycles)
    OBVIOUS
  <2> HIDE DEF v, low
  <2>4. CASE low = KeyLow
    <3>1. NextRomx(v, low) # 3
      BY <2>2, <2>4 DEF NextRomx
    <3> QED
      BY <2>2, <3>1
  <2>5. CASE low = KeyHigh
    <3>1. v = 2
      BY <2>2, <2>5 DEF NextRomx
    <3>2. OpenSince(longer, last)
      BY <1>2, <1>8, <2>3, <2>5, <3>1, KeyCompleted
    <3>3. BankReads(longer, last) = {} /\ CommitReads(longer, last) = {}
      BY <1>1 DEF BankReads, CommitReads
    <3>4. BankSince(t.romx_textbank, longer, last)
      BY <3>3 DEF BankSince
    <3> QED
      BY <1>1, <1>3, <2>1, <3>2, <3>4
  <2>6. CASE low # KeyLow /\ low # KeyHigh
    <3>1. v = 3
      BY <2>2, <2>6 DEF NextRomx
    <3>2. ~ Low(longer, last) /\ ~ High(longer, last)
      BY <1>2, <2>6
    <3> QED
      BY <1>3, <1>5, <1>6, <3>1, <3>2
  <2> QED
    BY <2>4, <2>5, <2>6
<1> QED
  BY <1>7, <1>8

\* The font selection knows the bank that was read last since the key.
FontInv == RomxInv /\ FontReady(dev) /\ BankKnown(dev, Recent)

LEMMA FontStepKnown ==
  ASSUME PlainProgram, FontInv, NEW x \in Words, Logged(x[1], x[2], x[3])
  PROVE  /\ FontReady(dev') /\ BankKnown(dev', Recent')
         /\ dev'.cfg_local_charset # dev.cfg_local_charset =>
              /\ CommitRead(dev.current_machine, log'[Len(log')].address)
              /\ dev.romx_unlocked = 3
              /\ dev'.cfg_local_charset = dev.romx_textbank
<1>1. PICK e : /\ log' = Append(log, e) /\ Extended(log', log, e)
               /\ e.mode = x[1] /\ e.address = x[2] /\ e.address \in Address
               /\ e.mode \in {"WriteDev", "ReadDev"} => e.address \in DeviceSelect
               /\ dev' = AfterCycle(dev, e.mode, e.address, e.data)
               /\ e.reset \in BOOLEAN
               /\ e.reset <=> ResetCycle(dev, e.mode, e.address)
               /\ e.machine = dev.current_machine
               /\ Locks(dev, dev', e.mode, e.address, e.data)
  BY LoggedCycle DEF FontInv, RomxInv
<1>2. e.mode # "WriteDev" /\ ~ (e.mode = "WriteMem" /\ e.address < 2048)
  BY <1>1 DEF PlainProgram
<1>3. Ready(dev) /\ FontReady(dev)
  BY DEF FontInv, RomxInv, ResetInv, HistoryInv
<1>4. FontStep(dev, dev', e.mode, e.address)
  <2> DEFINE m == e.mode
             a == e.address
             d == e.data
  <2>1. /\ a \in Address
        /\ m \in {"WriteDev", "ReadDev"} => a \in DeviceSelect
        /\ m # "WriteDev" /\ ~ (m = "WriteMem" /\ a < 2048)
    BY <1>1, <1>2
  <2>2. dev' = AfterCycle(dev, m, a, d)
    BY <1>1
  <2> HIDE DEF m, a, d
  <2>3. FontStep(dev, AfterCycle(dev, m, a, d), m, a)
    BY <1>3, <2>1, FontOfCycle
  <2> QED
    BY <2>2, <2>3 DEF m, a
<1>5. FontReady(dev')
  BY <1>3, <1>4 DEF FontStep, FontReady
<1>6. BankKnown(dev', Recent')
  <2>1. IF e.reset THEN DOMAIN Since(log') = {} /\ Len(Since(log')) = 0
        ELSE Extended(Since(log'), Since(log), e)
    BY <1>1, SinceExtended DEF FontInv, RomxInv, ResetInv, HistoryInv
  <2>2. CASE e.reset
    <3>1. dev'.romx_unlocked = 0
      BY <1>1, <2>2 DEF Locks
    <3> QED
      BY <3>1 DEF BankKnown
  <2>3. CASE ~ e.reset
    <3>1. RomxKnown(dev.romx_unlocked, Since(log)) /\ BankKnown(dev, Since(log))
      BY DEF FontInv, RomxInv, ResetInv, HistoryInv, Recent
    <3>2. IF KeyRead(e.mode, e.address, e.machine)
          THEN dev'.romx_unlocked = NextRomx(dev.romx_unlocked, e.address % 256)
          ELSE RomxKept(dev, dev')
      BY <1>1, <2>3 DEF Locks
    <3>3. Extended(Since(log'), Since(log), e)
      BY <2>1, <2>3
    <3>4. BankKnown(dev', Since(log'))
      BY <1>1, <1>4, <3>1, <3>2, <3>3, BankExtended
    <3> QED
      BY <3>4 DEF Recent
  <2> QED
    BY <1>1, <2>2, <2>3
<1>7. log'[Len(log')] = e
  BY <1>1 DEF Extended
<1>8. dev'.cfg_local_charset # dev.cfg_local_charset =>
        /\ CommitRead(dev.current_machine, e.address) /\ dev.romx_unlocked = 3
        /\ dev'.cfg_local_charset = dev.romx_textbank
  BY <1>4 DEF FontStep, FontRead, SameFont
<1> QED
  BY <1>5, <1>6, <1>7, <1>8

LEMMA FontInvInit == HistoryInit => FontInv
<1> SUFFICES ASSUME HistoryInit
             PROVE  FontInv
  OBVIOUS
<1>1. PICK c \in Saved : dev = BusPowerOn([FreshFlash EXCEPT !.config = c])
  BY DEF HistoryInit, Init, PoweredOn
<1>2. Ready(dev) /\ {"romx_textbank", "cfg_local_charset"} \subseteq DOMAIN dev
      /\ dev.romx_unlocked = 0
  BY <1>1, PowerOnState
<1> QED
  BY <1>2, RomxInvInit DEF FontInv, FontReady, Ready, BankKnown

LEMMA FontInvNext == PlainProgram /\ FontInv /\ [HistoryNext]_vars => FontInv'
<1> SUFFICES ASSUME PlainProgram, FontInv, [HistoryNext]_vars
             PROVE  FontInv'
  OBVIOUS
<1>1. RomxInv'
  BY RomxInvNext DEF FontInv
<1>2. CASE UNCHANGED vars
  <2>1. dev' = dev /\ log' = log
    BY <1>2 DEF vars
  <2> QED
    BY <1>1, <2>1 DEF FontInv, Recent
<1>3. CASE \E x \in Words : Logged(x[1], x[2], x[3])
  BY <1>1, <1>3, FontStepKnown DEF FontInv
<1> QED
  BY <1>2, <1>3 DEF HistoryNext

\* When the font changes, and to which one: one step.
RomxFontStep ==
  dev'.cfg_local_charset # dev.cfg_local_charset =>
    LET since(k, Kind(_, _)) ==
          {i \in k + 1 .. Len(Recent) :
             Recent[i].mode = "ReadMem" /\ Kind(Recent[i].machine, Recent[i].address)}
    IN  /\ CommitRead(dev.current_machine, log'[Len(log')].address)
        /\ \E k \in DOMAIN Recent :
             /\ OpenSince(Recent, k) /\ since(k, CommitRead) = {}
             /\ \A i \in since(k, BankRead) :
                  (\A j \in since(k, BankRead) : j <= i)
                    => dev'.cfg_local_charset = FirstCustom + (Recent[i].address % 16)

\* As long as the program reaches neither the registers nor the text page, the font
\* changes only by a commit after a key, once per key, and to the bank that was read
\* last since then (businterface.c, check_romx_read), for every such program.
THEOREM RomxFontExact == PlainProgram => (HistorySpec => RomxFont)
<1> SUFFICES ASSUME PlainProgram
             PROVE  HistorySpec => RomxFont
  OBVIOUS
<1>1. FontInv /\ HistoryNext => RomxFontStep
  <2> SUFFICES ASSUME FontInv, HistoryNext,
                      dev'.cfg_local_charset # dev.cfg_local_charset
               PROVE  RomxFontStep
    BY DEF RomxFontStep
  <2>1. /\ CommitRead(dev.current_machine, log'[Len(log')].address)
        /\ dev.romx_unlocked = 3
        /\ dev'.cfg_local_charset = dev.romx_textbank
    BY FontStepKnown DEF HistoryNext
  <2>2. PICK k \in DOMAIN Recent :
          OpenSince(Recent, k) /\ BankSince(dev.romx_textbank, Recent, k)
    BY <2>1 DEF FontInv, BankKnown
  <2>3. /\ CommitReads(Recent, k) = {}
        /\ \A i \in BankReads(Recent, k) :
             (\A j \in BankReads(Recent, k) : j <= i)
               => dev'.cfg_local_charset = FirstCustom + (Recent[i].address % 16)
    BY <2>1, <2>2 DEF BankSince
  <2> QED
    BY <2>1, <2>2, <2>3, Zenon DEF RomxFontStep, BankReads, CommitReads
<1>2. FontInv /\ [HistoryNext]_vars => FontInv'
  BY FontInvNext
<1>3. HistorySpec => [][RomxFontStep]_vars
  BY <1>1, <1>2, FontInvInit, PTL DEF HistorySpec
<1> QED
  BY <1>3 DEF RomxFont, RomxFontStep

-----------------------------------------------------------------------------
(* Loading a configuration leaves the switches and the Videx card alone.    *)

\* From s to t, the switches and the state of the Videx card stay.
SameBus(s, t) ==
  /\ DOMAIN t = DOMAIN s /\ t.soft_switches = s.soft_switches
  /\ t.videx_banknum = s.videx_banknum /\ t.videx_crtc_idx = s.videx_crtc_idx
  /\ t.videx_crtc_regs = s.videx_crtc_regs /\ t.videx_vram = s.videx_vram
  /\ t.videx_vterm_mem_selected = s.videx_vterm_mem_selected

LEMMA MachineKeepsBus ==
  ASSUME NEW s, NEW machine
  PROVE  SameBus(s, set_machine(s, machine))
<1> DEFINE regs == Flag(s, IIeFont(machine), "IIE_REGS")
           enh  == [regs EXCEPT
                     !.unenhance_font = machine = MACHINE_IIE,
                     !.reload_charsets =
                        IF s.unenhance_font # (machine = MACHINE_IIE)
                        THEN @ \cup {Local, Alternate} ELSE @]
           once == [enh EXCEPT !.done = TRUE, !.current_machine = machine]
<1>1. SameBus(s, regs)
  BY DEF SameBus, Flag
<1> HIDE DEF regs
<1>2. SameBus(s, enh)
  BY <1>1 DEF SameBus
<1> HIDE DEF enh
<1>3. SameBus(s, once) /\ SameBus(s, [enh EXCEPT !.current_machine = machine])
  BY <1>2 DEF SameBus
<1> HIDE DEF once
<1>4. SameBus(s, check_machine_font(once))
  BY <1>3 DEF SameBus, check_machine_font
<1>5. set_machine(s, machine) \in
        {check_machine_font(once), [enh EXCEPT !.current_machine = machine]}
  BY DEF set_machine, once, enh, regs
<1> QED
  BY <1>3, <1>4, <1>5

LEMMA FlagsKeepBus ==
  ASSUME NEW s, NEW names
  PROVE  SameBus(s, config_setflags(s)) /\ SameBus(s, WithStoredFlags(s, names))
<1>1. \A u, condition, name : SameBus(u, Flag(u, condition, name))
  BY DEF SameBus, Flag
<1> DEFINE dgr == Flag(s, s.rendering_fx \in {FX_ENABLED, FX_DGR_ONLY}, "INTERP_DGR")
           dhgr == Flag(dgr, s.rendering_fx \in {FX_ENABLED, FX_DHGR_ONLY}, "INTERP_DHGR")
<1>2. SameBus(s, dgr)
  BY <1>1
<1> HIDE DEF dgr
<1>3. SameBus(dgr, dhgr)
  BY <1>1
<1> HIDE DEF dhgr
<1>4. config_setflags(s) = dhgr
  BY DEF config_setflags, dhgr, dgr
<1>5. SameBus(s, WithStoredFlags(s, names))
  BY DEF SameBus, WithStoredFlags
<1> QED
  BY <1>2, <1>3, <1>4, <1>5 DEF SameBus

LEMMA LoadKeepsBus ==
  ASSUME NEW s
  PROVE  SameBus(s, config_load(s))
<1> DEFINE fonts == IF s.flash.fontdir = Erased THEN s
                    ELSE [s EXCEPT !.invalid_fonts = s.flash.fontdir]
           cfg == s.flash.config
<1>1. SameBus(s, fonts)
  BY DEF SameBus
<1> HIDE DEF fonts, cfg
<1>2. SameBus(fonts, config_load_defaults(fonts))
  <2> DEFINE f == WithStoredFlags(fonts, {"SCANLINEEMU", "VIDEO7"})
             stored == [f EXCEPT !.rendering_fx = FX_ENABLED]
             flags == config_setflags(stored)
             auto == [flags EXCEPT !.color_mode = COLOR_MODE_BW,
                                   !.cfg_machine = MACHINE_AUTO]
             machine == set_machine(auto, fonts.detected_machine)
             result == [machine EXCEPT
                          !.input_switch_mode = ModeSwitchLangCycle,
                          !.unenhance_font = FALSE,
                          !.cfg_local_charset = 0, !.cfg_alt_charset = 0,
                          !.cfg_videx_selection = 0,
                          !.reload_charsets = @ \cup {Local, Alternate}]
  <2>1. SameBus(fonts, f)
    BY FlagsKeepBus
  <2> HIDE DEF f
  <2>2. SameBus(f, stored)
    BY DEF SameBus
  <2> HIDE DEF stored
  <2>3. SameBus(stored, flags)
    BY FlagsKeepBus
  <2> HIDE DEF flags
  <2>4. SameBus(flags, auto)
    BY DEF SameBus
  <2> HIDE DEF auto
  <2>5. SameBus(auto, machine)
    BY MachineKeepsBus
  <2> HIDE DEF machine
  <2>6. SameBus(machine, result)
    BY DEF SameBus
  <2> HIDE DEF result
  <2>7. SameBus(result, Flag(result, FALSE, "VIDEX"))
    BY DEF SameBus, Flag
  <2>8. config_load_defaults(fonts) = Flag(result, FALSE, "VIDEX")
    BY DEF config_load_defaults, result, machine, auto, flags, stored, f
  <2> QED
    BY <2>1, <2>2, <2>3, <2>4, <2>5, <2>6, <2>7, <2>8, ZenonT(60) DEF SameBus
<1>3. SameBus(fonts, load_stored(fonts, cfg))
  <2> DEFINE type    == stored_machine(cfg)
             chosen  == [fonts EXCEPT !.cfg_machine = type]
             machine == set_machine(chosen, type)
             flags   == WithStoredFlags(machine, cfg.flags)
             select  == [flags EXCEPT !.cfg_videx_selection = cfg.videx_selection]
             videx   == IF cfg.size = "full"
                        THEN Flag(select, cfg.videx_selection > 0, "VIDEX") ELSE flags
             fx      == IF cfg.size # "without rendering_fx"
                        THEN [videx EXCEPT !.rendering_fx = cfg.rendering_fx] ELSE videx
             effects == config_setflags(fx)
  <2>1. SameBus(fonts, chosen)
    BY DEF SameBus
  <2> HIDE DEF chosen
  <2>2. SameBus(chosen, machine)
    BY MachineKeepsBus
  <2> HIDE DEF machine
  <2>3. SameBus(machine, flags)
    BY FlagsKeepBus
  <2> HIDE DEF flags
  <2>4. SameBus(flags, select)
    BY DEF SameBus
  <2> HIDE DEF select
  <2>5. SameBus(flags, videx)
    BY <2>4 DEF SameBus, Flag
  <2> HIDE DEF videx
  <2>6. SameBus(videx, fx)
    BY DEF SameBus
  <2> HIDE DEF fx
  <2>7. SameBus(fx, effects)
    BY FlagsKeepBus
  <2> HIDE DEF effects, type
  <2>8. SameBus(effects, load_stored(fonts, cfg))
    BY DEF SameBus, load_stored, type, chosen, machine, flags, select, videx, fx, effects
  <2> QED
    BY <2>1, <2>2, <2>3, <2>5, <2>6, <2>7, <2>8 DEF SameBus
<1>4. config_load(s) \in {config_load_defaults(fonts), load_stored(fonts, cfg)}
  BY DEF config_load, fonts, cfg
<1> QED
  BY <1>1, <1>2, <1>3, <1>4 DEF SameBus

-----------------------------------------------------------------------------
(* The switches of the Apple IIe and the mode of the Video7 card.          *)

\* The switches that the mode depends on, after an access to the n-th register.
SwitchBits(s, t, mode, n) ==
  /\ "DGR" \in t.soft_switches <=> n = 94 \/ (n # 95 /\ "DGR" \in s.soft_switches)
  /\ "80COL" \in t.soft_switches <=>
       (mode = "WriteMem" /\ n = 13)
       \/ (~ (mode = "WriteMem" /\ n = 12) /\ "80COL" \in s.soft_switches)
  /\ "V7_MODE1" \in t.soft_switches <=>
       (IF n = 95 /\ "DGR" \in s.soft_switches
        THEN "80COL" \in s.soft_switches ELSE "V7_MODE1" \in s.soft_switches)
  /\ "V7_MODE2" \in t.soft_switches <=>
       (IF n = 95 /\ "DGR" \in s.soft_switches
        THEN "V7_MODE1" \in s.soft_switches ELSE "V7_MODE2" \in s.soft_switches)

LEMMA SwitchedIn ==
  ASSUME NEW s, Ready(s), NEW on \in BOOLEAN, NEW name, NEW other
  PROVE  other \in Switched(s, on, name).soft_switches <=>
           IF other = name THEN on ELSE other \in s.soft_switches
<1>1. Switched(s, on, name).soft_switches =
        IF on THEN s.soft_switches \cup {name} ELSE s.soft_switches \ {name}
  BY DEF Ready, Switched
<1> QED
  BY <1>1

\* No other switch matters.
Minor(name) == name \notin {"DGR", "80COL", "V7_MODE1", "V7_MODE2"}

Toggled(s, t, name) ==
  t.soft_switches \in {s.soft_switches \cup {name}, s.soft_switches \ {name}}

LEMMA SwitchedToggled ==
  ASSUME NEW s, Ready(s), NEW on \in BOOLEAN, NEW name
  PROVE  Toggled(s, Switched(s, on, name), name)
BY DEF Ready, Switched, Toggled

LEMMA MinorSwitch ==
  ASSUME NEW s, NEW t, NEW name, Minor(name), Toggled(s, t, name), NEW mode, NEW n,
         n \notin {94, 95}, mode = "WriteMem" => n \notin {12, 13}
  PROVE  SwitchBits(s, t, mode, n)
<1>1. \A other \in {"DGR", "80COL", "V7_MODE1", "V7_MODE2"} :
        other \in t.soft_switches <=> other \in s.soft_switches
  BY DEF Minor, Toggled
<1> QED
  BY <1>1 DEF SwitchBits

LEMMA ShiftIn ==
  ASSUME NEW s, Ready(s), NEW mode
  PROVE  SwitchBits(s, Switched(v7_shift(s), FALSE, "DGR"), mode, 95)
<1> DEFINE v == v7_shift(s)
           t == Switched(v, FALSE, "DGR")
<1>1. Ready(v)
  BY V7Untouched, StillReady DEF Untouched
<1>2. CASE "DGR" \notin s.soft_switches
  <2>1. v = s
    BY <1>2 DEF v7_shift
  <2>2. \A other \in {"80COL", "V7_MODE1", "V7_MODE2"} :
          other \in t.soft_switches <=> other \in s.soft_switches
    BY <1>1, <2>1, SwitchedIn
  <2>3. "DGR" \notin t.soft_switches
    BY <1>1, SwitchedIn
  <2> HIDE DEF t
  <2>4. SwitchBits(s, t, mode, 95)
    BY <1>2, <2>2, <2>3 DEF SwitchBits
  <2> QED
    BY <1>1, <2>4 DEF t, v
<1>3. CASE "DGR" \in s.soft_switches
  <2>1. v.soft_switches =
          (s.soft_switches \ {"V7_MODE1", "V7_MODE2"})
            \cup (IF "V7_MODE1" \in s.soft_switches THEN {"V7_MODE2"} ELSE {})
            \cup (IF "80COL" \in s.soft_switches THEN {"V7_MODE1"} ELSE {})
    BY <1>3 DEF Ready, v7_shift
  <2>2. /\ "80COL" \in v.soft_switches <=> "80COL" \in s.soft_switches
        /\ "V7_MODE1" \in v.soft_switches <=> "80COL" \in s.soft_switches
        /\ "V7_MODE2" \in v.soft_switches <=> "V7_MODE1" \in s.soft_switches
    BY <2>1
  <2> HIDE DEF v
  <2>3. \A other \in {"80COL", "V7_MODE1", "V7_MODE2"} :
          other \in t.soft_switches <=> other \in v.soft_switches
    BY <1>1, SwitchedIn DEF v
  <2>4. "DGR" \notin t.soft_switches
    BY <1>1, SwitchedIn DEF v
  <2> HIDE DEF t
  <2>5. SwitchBits(s, t, mode, 95)
    BY <1>3, <2>2, <2>3, <2>4 DEF SwitchBits
  <2> QED
    BY <1>1, <2>5 DEF t, v
<1> QED
  BY <1>2, <1>3

LEMMA IIeSwitchNames ==
  ASSUME NEW n \in 0 .. 15
  PROVE  /\ n \notin {12, 13} => Minor(IIeSwitches[(n \div 2) + 1])
         /\ n \in {12, 13} => IIeSwitches[(n \div 2) + 1] = "80COL"
<1>1. n \div 2 \in 0 .. 7 /\ (n \div 2 = 6 <=> n \in {12, 13})
  OBVIOUS
<1>2. \A k \in 0 .. 7 : /\ k # 6 => Minor(IIeSwitches[k + 1])
                        /\ k = 6 => IIeSwitches[k + 1] = "80COL"
  <2> SUFFICES ASSUME NEW k \in 0 .. 7
               PROVE  /\ k # 6 => Minor(IIeSwitches[k + 1])
                      /\ k = 6 => IIeSwitches[k + 1] = "80COL"
    OBVIOUS
  <2>1. k \in {0, 1, 2, 3, 4, 5, 6, 7}
    OBVIOUS
  <2> QED
    BY <2>1 DEF IIeSwitches, Minor
<1> QED
  BY <1>1, <1>2

LEMMA VideoSwitchNames ==
  ASSUME NEW n \in 80 .. 87
  PROVE  Minor(VideoSwitches[((n - 80) \div 2) + 1])
<1>1. (n - 80) \div 2 \in {0, 1, 2, 3}
  OBVIOUS
<1>2. \A k \in {0, 1, 2, 3} : Minor(VideoSwitches[k + 1])
  BY DEF VideoSwitches, Minor
<1> QED
  BY <1>1, <1>2

\* apple2_softswitches in terms of the register.
SwitchesAt(s, mode, n, data) ==
  LET iie   == "IIE_REGS" \in s.internal_flags
      write == mode = "WriteMem"
  IN  CASE iie /\ write /\ n < 16 ->
             Switched(s, n % 2 = 1, IIeSwitches[(n \div 2) + 1])
        [] iie /\ write /\ n = 33 -> Switched(s, data >= 128, "MONOCHROME")
        [] iie /\ write /\ n >= 126 -> Switched(s, n = 126, "IOUDIS")
        [] n \in 80 .. 87 ->
             Switched(s, n % 2 = 1, VideoSwitches[((n - 80) \div 2) + 1])
        [] n \in 88 .. 89 /\ ~ iie /\ "VIDEX" \in s.internal_flags ->
             Switched(s, n = 89, "VIDEX_80COL")
        [] n = 94 /\ iie -> Switched(s, TRUE, "DGR")
        [] n = 95 -> IF iie THEN Switched(v7_shift(s), FALSE, "DGR") ELSE v7_shift(s)
        [] OTHER -> s

LEMMA SwitchesAtRegister ==
  ASSUME NEW s, NEW mode, NEW address, NEW data
  PROVE  apple2_softswitches(s, mode, address, data) =
           SwitchesAt(s, mode, address % 128, data)
BY Zenon DEF apple2_softswitches, SwitchesAt

\* What the switches of an Apple IIe become, register by register.
ByRegister(s, t, mode, n, data) ==
  /\ mode = "WriteMem" /\ n < 16 => t = Switched(s, n % 2 = 1, IIeSwitches[(n \div 2) + 1])
  /\ mode = "WriteMem" /\ n = 33 => t = Switched(s, data >= 128, "MONOCHROME")
  /\ mode = "WriteMem" /\ n >= 126 => t = Switched(s, n = 126, "IOUDIS")
  /\ n \in 80 .. 87 => t = Switched(s, n % 2 = 1, VideoSwitches[((n - 80) \div 2) + 1])
  /\ n = 94 => t = Switched(s, TRUE, "DGR")
  /\ n = 95 => t = Switched(v7_shift(s), FALSE, "DGR")
  /\ ~ (mode = "WriteMem" /\ n < 16) /\ ~ (mode = "WriteMem" /\ n = 33)
       /\ ~ (mode = "WriteMem" /\ n >= 126)
       /\ n \notin 80 .. 87 /\ n # 94 /\ n # 95 => t = s

LEMMA SwitchesByRegister ==
  ASSUME NEW s, "IIE_REGS" \in s.internal_flags, NEW mode,
         NEW n \in 0 .. 127, NEW data
  PROVE  ByRegister(s, SwitchesAt(s, mode, n, data), mode, n, data)
<1> DEFINE t == SwitchesAt(s, mode, n, data)
<1>1. ASSUME mode = "WriteMem" /\ n < 16
      PROVE  t = Switched(s, n % 2 = 1, IIeSwitches[(n \div 2) + 1])
  <2>1. n # 33 /\ ~ (n >= 126) /\ n \notin 80 .. 87 /\ n \notin 88 .. 89 /\ n # 94 /\ n # 95
    BY <1>1
  <2> QED
    BY <1>1, <2>1, ZenonT(60) DEF SwitchesAt
<1>2. ASSUME mode = "WriteMem" /\ n = 33  PROVE t = Switched(s, data >= 128, "MONOCHROME")
  <2>1. ~ (n < 16) /\ ~ (n >= 126) /\ n \notin 80 .. 87 /\ n \notin 88 .. 89 /\ n # 94 /\ n # 95
    BY <1>2
  <2> QED
    BY <1>2, <2>1, ZenonT(60) DEF SwitchesAt
<1>3. ASSUME mode = "WriteMem" /\ n >= 126  PROVE t = Switched(s, n = 126, "IOUDIS")
  <2>1. ~ (n < 16) /\ n # 33 /\ n \notin 80 .. 87 /\ n \notin 88 .. 89 /\ n # 94 /\ n # 95
    BY <1>3
  <2> QED
    BY <1>3, <2>1, ZenonT(60) DEF SwitchesAt
<1>4. ASSUME n \in 80 .. 87
      PROVE  t = Switched(s, n % 2 = 1, VideoSwitches[((n - 80) \div 2) + 1])
  <2>1. ~ (n < 16) /\ n # 33 /\ ~ (n >= 126) /\ n \notin 88 .. 89 /\ n # 94 /\ n # 95
    BY <1>4
  <2> QED
    BY <1>4, <2>1, ZenonT(60) DEF SwitchesAt
<1>5. ASSUME n = 94  PROVE t = Switched(s, TRUE, "DGR")
  <2>1. ~ (n < 16) /\ n # 33 /\ ~ (n >= 126) /\ n \notin 80 .. 87 /\ n \notin 88 .. 89 /\ n # 95
    BY <1>5
  <2> QED
    BY <1>5, <2>1, SMT DEF SwitchesAt
<1>6. ASSUME n = 95  PROVE t = Switched(v7_shift(s), FALSE, "DGR")
  <2>1. ~ (n < 16) /\ n # 33 /\ ~ (n >= 126) /\ n \notin 80 .. 87 /\ n \notin 88 .. 89 /\ n # 94
    BY <1>6
  <2> QED
    BY <1>6, <2>1, SMT DEF SwitchesAt
<1>7. ASSUME ~ (mode = "WriteMem" /\ n < 16), ~ (mode = "WriteMem" /\ n = 33),
             ~ (mode = "WriteMem" /\ n >= 126),
             n \notin 80 .. 87, n # 94, n # 95
      PROVE  t = s
  BY <1>7, ZenonT(60) DEF SwitchesAt
<1> QED
  BY <1>1, <1>2, <1>3, <1>4, <1>5, <1>6, <1>7 DEF ByRegister

\* What an access to the n-th register of an Apple IIe does to the switches.
LEMMA SwitchesAtBits ==
  ASSUME NEW s, Ready(s), "IIE_REGS" \in s.internal_flags, NEW mode,
         NEW n \in 0 .. 127, NEW data
  PROVE  SwitchBits(s, SwitchesAt(s, mode, n, data), mode, n)
<1> DEFINE t == SwitchesAt(s, mode, n, data)
           odd == n % 2 = 1
           name == IIeSwitches[(n \div 2) + 1]
           video == VideoSwitches[((n - 80) \div 2) + 1]
<1>a. odd \in BOOLEAN /\ (data >= 128) \in BOOLEAN /\ (n = 126) \in BOOLEAN
  OBVIOUS
<1>b. n \in {12, 13} => (odd <=> n = 13)
  OBVIOUS
<1>c. n \in 0 .. 15 => /\ n \notin {12, 13} => Minor(name)
                       /\ n \in {12, 13} => name = "80COL"
  BY IIeSwitchNames
<1>d. n \in 80 .. 87 => Minor(video)
  BY VideoSwitchNames
<1>e. Minor("MONOCHROME") /\ Minor("IOUDIS")
  BY DEF Minor
<1>0. ByRegister(s, t, mode, n, data)
  BY SwitchesByRegister
<1> SUFFICES SwitchBits(s, t, mode, n)
  OBVIOUS
<1> HIDE DEF t
<1>z. /\ mode = "WriteMem" /\ n < 16 => t = Switched(s, odd, name)
      /\ n \in 80 .. 87 => t = Switched(s, odd, video)
  BY <1>0 DEF ByRegister
<1> HIDE DEF odd, name, video
<1>2. CASE mode = "WriteMem" /\ n < 16
  <2>1. n \in 0 .. 15 /\ n \notin {94, 95}
    BY <1>2
  <2>2. t = Switched(s, odd, name)
    BY <1>z, <1>2
  <2>3. CASE n \notin {12, 13}
    <3>1. Toggled(s, t, name)
      BY <1>a, <2>2, SwitchedToggled
    <3> QED
      BY <1>c, <2>1, <2>3, <3>1, MinorSwitch
  <2>4. CASE n \in {12, 13}
    <3>1. t.soft_switches = IF odd THEN s.soft_switches \cup {"80COL"}
                            ELSE s.soft_switches \ {"80COL"}
      BY <1>c, <2>1, <2>2, <2>4 DEF Ready, Switched
    <3> QED
      BY <1>b, <1>2, <2>1, <2>4, <3>1 DEF SwitchBits
  <2> QED
    BY <2>3, <2>4
<1>3. CASE mode = "WriteMem" /\ n = 33
  <2>1. Toggled(s, t, "MONOCHROME")
    BY <1>0, <1>3 DEF ByRegister, Ready, Switched, Toggled
  <2>2. n \notin {94, 95} /\ n \notin {12, 13}
    BY <1>3
  <2> QED
    BY <1>e, <2>1, <2>2, MinorSwitch
<1>4. CASE mode = "WriteMem" /\ n >= 126
  <2>1. Toggled(s, t, "IOUDIS")
    BY <1>0, <1>4 DEF ByRegister, Ready, Switched, Toggled
  <2>2. n \notin {94, 95} /\ n \notin {12, 13}
    BY <1>4
  <2> QED
    BY <1>e, <2>1, <2>2, MinorSwitch
<1>5. CASE n \in 80 .. 87
  <2>1. Toggled(s, t, video)
    BY <1>z, <1>5 DEF Ready, Switched, Toggled
  <2>2. n \notin {94, 95} /\ n \notin {12, 13}
    BY <1>5
  <2> QED
    BY <1>5, <1>d, <2>1, <2>2, MinorSwitch
<1>6. CASE n = 94
  <2>1. t.soft_switches = s.soft_switches \cup {"DGR"}
    BY <1>0, <1>6 DEF ByRegister, Ready, Switched
  <2> QED
    BY <1>6, <2>1 DEF SwitchBits
<1>7. CASE n = 95
  BY <1>0, <1>7, ShiftIn, ZenonT(60) DEF ByRegister
<1>8. CASE /\ ~ (mode = "WriteMem" /\ n < 16) /\ ~ (mode = "WriteMem" /\ n = 33)
           /\ ~ (mode = "WriteMem" /\ n >= 126)
           /\ n \notin 80 .. 87 /\ n # 94 /\ n # 95
  <2>1. t = s
    BY <1>0, <1>8 DEF ByRegister
  <2>2. mode = "WriteMem" => n \notin {12, 13}
    BY <1>8
  <2> QED
    BY <1>8, <2>1, <2>2 DEF SwitchBits
<1> QED
  BY <1>2, <1>3, <1>4, <1>5, <1>6, <1>7, <1>8

LEMMA SoftswitchesBits ==
  ASSUME NEW s, Ready(s), "IIE_REGS" \in s.internal_flags, NEW mode,
         NEW address \in Nat, NEW data
  PROVE  SwitchBits(s, apple2_softswitches(s, mode, address, data), mode, address % 128)
<1>1. address % 128 \in 0 .. 127
  OBVIOUS
<1>2. apple2_softswitches(s, mode, address, data) = SwitchesAt(s, mode, address % 128, data)
  BY SwitchesAtRegister
<1> QED
  BY <1>1, <1>2, SwitchesAtBits, ZenonT(60)

\* Reads of the ROMX leave both alone, the Videx card the switches.
LEMMA RomxKeepsBus ==
  ASSUME NEW s, NEW address
  PROVE  /\ SameBus(s, check_romx_read(s, address))
         /\ check_romx_read(s, address).internal_flags = s.internal_flags
<1> DEFINE Kept(u) == SameBus(s, u) /\ u.internal_flags = s.internal_flags
<1>1. Kept(s)
  BY DEF SameBus
<1>2. \A v : Kept([s EXCEPT !.romx_unlocked = v]) /\ Kept([s EXCEPT !.romx_textbank = v])
  BY DEF SameBus
<1>3. Kept(romx_key(s, address % 256)) /\ Kept(romx_bank(s, address))
  BY DEF SameBus, romx_key, romx_bank
<1>4. Kept(romx_commit(s))
  BY DEF SameBus, romx_commit
<1> HIDE DEF Kept
<1>5. Kept(check_romx_read(s, address))
  BY <1>1, <1>3, <1>4 DEF check_romx_read
<1> QED
  BY <1>5 DEF Kept

SameSwitches(s, t) == DOMAIN t = DOMAIN s /\ t.soft_switches = s.soft_switches

LEMMA VidexSwitches ==
  ASSUME NEW s, NEW mode, NEW address, NEW data
  PROVE  SameSwitches(s, videx_access(s, mode, address, data))
<1>1. SameSwitches(s, s)
  BY DEF SameSwitches
<1>2. SameSwitches(s, videx_reg_read(s, address))
  BY DEF SameSwitches, videx_reg_read
<1>3. SameSwitches(s, videx_reg_write(s, address, data))
  <2> DEFINE bank == [s EXCEPT !.videx_banknum = Bank(address)]
  <2>1. SameSwitches(s, bank)
    BY DEF SameSwitches
  <2> HIDE DEF bank
  <2>2. SameSwitches(s, [bank EXCEPT !.videx_crtc_idx = data])
        /\ SameSwitches(s, [bank EXCEPT !.videx_crtc_regs[s.videx_crtc_idx] = data])
    BY <2>1 DEF SameSwitches
  <2> QED
    BY <2>1, <2>2, Zenon DEF videx_reg_write, bank
<1>4. SameSwitches(s, videx_c8xx(s, mode, address, data))
  <2>1. SameSwitches(s, [s EXCEPT !.videx_vterm_mem_selected = FALSE])
        /\ SameSwitches(s, [s EXCEPT !.videx_vram[Window(s, address)] = data])
    BY DEF SameSwitches
  <2> QED
    BY <1>1, <2>1 DEF videx_c8xx
<1>5. SameSwitches(s, [s EXCEPT !.videx_vterm_mem_selected = TRUE])
  BY DEF SameSwitches
<1> QED
  BY <1>1, <1>2, <1>3, <1>4, <1>5 DEF videx_access

\* The switches that the mode depends on, after a cycle of the bus.
BitStep(s, t, mode, address) ==
  /\ "DGR" \in t.soft_switches <=>
       address = 49246 \/ (address # 49247 /\ "DGR" \in s.soft_switches)
  /\ "80COL" \in t.soft_switches <=>
       \/ mode = "WriteMem" /\ address = 49165
       \/ ~ (mode = "WriteMem" /\ address = 49164) /\ "80COL" \in s.soft_switches
  /\ "V7_MODE1" \in t.soft_switches <=>
       (IF address = 49247 /\ "DGR" \in s.soft_switches
        THEN "80COL" \in s.soft_switches ELSE "V7_MODE1" \in s.soft_switches)
  /\ "V7_MODE2" \in t.soft_switches <=>
       (IF address = 49247 /\ "DGR" \in s.soft_switches
        THEN "V7_MODE1" \in s.soft_switches ELSE "V7_MODE2" \in s.soft_switches)

LEMMA SwitchAddress ==
  ASSUME NEW address \in 49152 .. 49279
  PROVE  /\ address % 128 = 94 <=> address = 49246
         /\ address % 128 = 95 <=> address = 49247
         /\ address % 128 = 12 <=> address = 49164
         /\ address % 128 = 13 <=> address = 49165
OBVIOUS

LEMMA EmulatedBits ==
  ASSUME NEW s, Ready(s), "IIE_REGS" \in s.internal_flags, NEW mode, mode # "WriteDev",
         NEW address \in Nat, NEW data
  PROVE  BitStep(s, apple2emulation(s, mode, address, data), mode, address)
<1> DEFINE seen == IF mode = "ReadMem" THEN check_romx_read(s, address) ELSE s
           t == apple2emulation(s, mode, address, data)
<1>1. /\ Ready(seen) /\ "IIE_REGS" \in seen.internal_flags
      /\ seen.soft_switches = s.soft_switches
  <2>1. CASE mode = "ReadMem"
    <3>1. /\ SameBus(s, check_romx_read(s, address))
          /\ check_romx_read(s, address).internal_flags = s.internal_flags
      BY RomxKeepsBus
    <3> QED
      BY <2>1, <3>1 DEF SameBus, Ready
  <2>2. CASE mode # "ReadMem"
    BY <2>2
  <2> QED
    BY <2>1, <2>2
<1> HIDE DEF seen, t
<1>2. CASE address \in 49152 .. 49279
  <2>1. t = register_access(seen, mode, address, data)
    BY <1>2 DEF apple2emulation, t, seen
  <2>2. t = apple2_softswitches(seen, mode, address, data)
    BY <1>2, <2>1 DEF register_access
  <2>3. SwitchBits(seen, apple2_softswitches(seen, mode, address, data), mode, address % 128)
    BY <1>1, SoftswitchesBits
  <2>4. SwitchBits(seen, t, mode, address % 128)
    BY <2>2, <2>3
  <2> DEFINE n == address % 128
  <2>5. /\ n = 94 <=> address = 49246
        /\ n = 95 <=> address = 49247
        /\ n = 12 <=> address = 49164
        /\ n = 13 <=> address = 49165
    BY <1>2, SwitchAddress
  <2>6. SwitchBits(seen, t, mode, n)
    BY <2>4
  <2> HIDE DEF n
  <2>7. BitStep(s, t, mode, address)
    BY <1>1, <2>5, <2>6 DEF SwitchBits, BitStep
  <2> QED
    BY <2>7 DEF t
<1>3. CASE ~ (address \in 49152 .. 49279)
  <2>1. t.soft_switches = s.soft_switches
    <3>1. CASE mode = "WriteMem" /\ address < 24576
      <4>1. t = ram_write(s, address, data)
        BY <3>1, WriteEmulated DEF MemoryWrite, t
      <4> QED
        BY <4>1, RamWrite
    <3>2. CASE ~ (mode = "WriteMem" /\ address < 24576) /\ address \in 49152 .. 53247
      <4>1. t = register_access(seen, mode, address, data)
        BY <3>2 DEF apple2emulation, t, seen
      <4>2. ~ (address < 49280) /\ address >= 49280
        BY <1>3, <3>2
      <4>3. t \in {seen, videx_access(seen, mode, address, data)}
        BY <4>1, <4>2 DEF register_access
      <4> QED
        BY <1>1, <4>3, VidexSwitches DEF SameSwitches
    <3>3. CASE ~ (mode = "WriteMem" /\ address < 24576) /\ ~ (address \in 49152 .. 53247)
      <4>1. t = seen
        BY <3>3 DEF apple2emulation, t, seen
      <4> QED
        BY <1>1, <4>1
    <3> QED
      BY <3>1, <3>2, <3>3
  <2>2. address \notin {49246, 49247, 49164, 49165}
    BY <1>3
  <2>3. BitStep(s, t, mode, address)
    BY <2>1, <2>2 DEF BitStep
  <2> QED
    BY <2>3 DEF t
<1> QED
  BY <1>2, <1>3

\* A whole cycle of a program on an Apple IIe that does not reset.
LEMMA BitsOfCycle ==
  ASSUME NEW s, Ready(s), "IIE_REGS" \in s.internal_flags, NEW mode, mode # "WriteDev",
         NEW address \in Address, NEW data,
         mode \in {"WriteDev", "ReadDev"} => address \in DeviceSelect,
         ~ ResetCycle(s, mode, address)
  PROVE  BitStep(s, AfterCycle(s, mode, address, data), mode, address)
<1> DEFINE e == apple2emulation(s, mode, address, data)
           r == reset_detection(e, mode, address)
           t == AfterCycle(s, mode, address, data)
<1> HIDE DEF e, r, t
<1>1. address \in Nat
  BY Addresses
<1>2. BitStep(s, e, mode, address)
  BY <1>1, EmulatedBits DEF e
<1>3. Emulated(s, e, mode, address, data)
  BY EmulatedCycle DEF e
<1>4. Ready(e) /\ ~ ResetCycle(e, mode, address)
  BY <1>3 DEF Emulated, Ready, ResetCycle
<1>5. \E n \in 0 .. 2 : r = [e EXCEPT !.reset_state = n]
  BY <1>4 DEF ResetCycle, reset_detection, r
<1>6. DOMAIN r = DOMAIN e /\ r.soft_switches = e.soft_switches
  BY <1>5
<1>7. t = [r EXCEPT !.trail = << >>]
  BY DEF AfterCycle, businterface, e, r, t
<1>8. t.soft_switches = e.soft_switches
  BY <1>4, <1>6, <1>7 DEF Ready
<1>9. BitStep(s, t, mode, address)
  BY <1>2, <1>8 DEF BitStep
<1> QED
  BY <1>9 DEF t

\* What the program selected last before cycle i: the double resolution, and 80COL.
DgrBefore(cycles, i) ==
  \E j \in 1 .. i - 1 : /\ cycles[j].address = 49246
                        /\ \A m \in j + 1 .. i - 1 : ~ (cycles[m].address = 49247)

ColBefore(cycles, i) ==
  \E j \in 1 .. i - 1 :
    /\ cycles[j].address = 49165 /\ cycles[j].mode = "WriteMem"
    /\ \A m \in j + 1 .. i - 1 : ~ (cycles[m].address = 49164 /\ cycles[m].mode = "WriteMem")

\* When the double resolution was really switched off, the last time and the one before.
Offs(cycles) ==
  {i \in DOMAIN cycles : cycles[i].address = 49247 /\ DgrBefore(cycles, i)}

LastOff(cycles, i) == \A j \in Offs(cycles) : j <= i

OffBefore(cycles, i) ==
  \E k \in Offs(cycles) : /\ LastOff(cycles, k) /\ i < k
                          /\ \A j \in Offs(cycles) : j < k => j <= i

\* The switches are what the history of the program says.
BitsKnown(s, cycles) ==
  /\ "DGR" \in s.soft_switches <=> DgrBefore(cycles, Len(cycles) + 1)
  /\ "80COL" \in s.soft_switches <=> ColBefore(cycles, Len(cycles) + 1)
  /\ "V7_MODE1" \in s.soft_switches <=>
       \A i \in Offs(cycles) : LastOff(cycles, i) => ColBefore(cycles, i)
  /\ "V7_MODE2" \in s.soft_switches <=>
       \A i \in Offs(cycles) : OffBefore(cycles, i) => ColBefore(cycles, i)

LEMMA SelectedExtended ==
  ASSUME NEW cycles, NEW e, NEW longer, Extended(longer, cycles, e)
  PROVE  LET n == Len(cycles)
         IN  /\ \A i \in 1 .. n + 1 : /\ DgrBefore(longer, i) <=> DgrBefore(cycles, i)
                                      /\ ColBefore(longer, i) <=> ColBefore(cycles, i)
             /\ DgrBefore(longer, n + 2) <=>
                  e.address = 49246 \/ (e.address # 49247 /\ DgrBefore(cycles, n + 1))
             /\ ColBefore(longer, n + 2) <=>
                  \/ e.mode = "WriteMem" /\ e.address = 49165
                  \/ /\ ~ (e.mode = "WriteMem" /\ e.address = 49164)
                     /\ ColBefore(cycles, n + 1)
<1> DEFINE n == Len(cycles)
<1>1. /\ n \in Nat /\ \A i \in 1 .. n : longer[i] = cycles[i]
      /\ longer[n + 1] = e
  BY DEF Extended
<1> HIDE DEF n
<1>2. ASSUME NEW i \in 1 .. n + 1
      PROVE  /\ DgrBefore(longer, i) <=> DgrBefore(cycles, i)
             /\ ColBefore(longer, i) <=> ColBefore(cycles, i)
  <2>1. \A j \in 1 .. i - 1 : /\ longer[j] = cycles[j]
                              /\ \A m \in j + 1 .. i - 1 : longer[m] = cycles[m]
    BY <1>1
  <2> QED
    BY <2>1 DEF DgrBefore, ColBefore
<1>3. /\ (n + 1) - 1 = n /\ (n + 2) - 1 = n + 1
      /\ 1 .. n + 1 = (1 .. n) \cup {n + 1}
      /\ \A j \in 1 .. n : j + 1 .. n + 1 = (j + 1 .. n) \cup {n + 1}
      /\ \A j \in 1 .. n : j + 1 .. n \subseteq 1 .. n
      /\ (n + 1) + 1 .. n + 1 = {}
  BY <1>1
<1>4. DgrBefore(longer, n + 2) <=>
        e.address = 49246 \/ (e.address # 49247 /\ DgrBefore(cycles, n + 1))
  <2>1. DgrBefore(longer, n + 2) <=>
          \E j \in (1 .. n) \cup {n + 1} :
            /\ longer[j].address = 49246
            /\ \A m \in j + 1 .. n + 1 : ~ (longer[m].address = 49247)
    BY <1>3 DEF DgrBefore
  <2>2. DgrBefore(cycles, n + 1) <=>
          \E j \in 1 .. n : /\ cycles[j].address = 49246
                            /\ \A m \in j + 1 .. n : ~ (cycles[m].address = 49247)
    BY <1>3 DEF DgrBefore
  <2>3. ASSUME NEW j \in 1 .. n
        PROVE  (\A m \in j + 1 .. n + 1 : ~ (longer[m].address = 49247)) <=>
                 /\ e.address # 49247
                 /\ \A m \in j + 1 .. n : ~ (cycles[m].address = 49247)
    BY <1>1, <1>3
  <2> QED
    BY <1>1, <1>3, <2>1, <2>2, <2>3
<1>5. ColBefore(longer, n + 2) <=>
        \/ e.mode = "WriteMem" /\ e.address = 49165
        \/ /\ ~ (e.mode = "WriteMem" /\ e.address = 49164)
           /\ ColBefore(cycles, n + 1)
  <2>1. ColBefore(longer, n + 2) <=>
          \E j \in (1 .. n) \cup {n + 1} :
            /\ longer[j].address = 49165 /\ longer[j].mode = "WriteMem"
            /\ \A m \in j + 1 .. n + 1 :
                 ~ (longer[m].address = 49164 /\ longer[m].mode = "WriteMem")
    BY <1>3 DEF ColBefore
  <2>2. ColBefore(cycles, n + 1) <=>
          \E j \in 1 .. n :
            /\ cycles[j].address = 49165 /\ cycles[j].mode = "WriteMem"
            /\ \A m \in j + 1 .. n :
                 ~ (cycles[m].address = 49164 /\ cycles[m].mode = "WriteMem")
    BY <1>3 DEF ColBefore
  <2>3. ASSUME NEW j \in 1 .. n
        PROVE  (\A m \in j + 1 .. n + 1 :
                  ~ (longer[m].address = 49164 /\ longer[m].mode = "WriteMem")) <=>
                 /\ ~ (e.address = 49164 /\ e.mode = "WriteMem")
                 /\ \A m \in j + 1 .. n :
                      ~ (cycles[m].address = 49164 /\ cycles[m].mode = "WriteMem")
    BY <1>1, <1>3
  <2> QED
    BY <1>1, <1>3, <2>1, <2>2, <2>3
<1> QED
  BY <1>2, <1>4, <1>5 DEF n

\* One more cycle switches the double resolution off, or not.
LEMMA OffsExtended ==
  ASSUME NEW cycles, NEW e, NEW longer, Extended(longer, cycles, e)
  PROVE  /\ Offs(cycles) \subseteq 1 .. Len(cycles)
         /\ Offs(longer) =
              IF e.address = 49247 /\ DgrBefore(cycles, Len(cycles) + 1)
              THEN Offs(cycles) \cup {Len(cycles) + 1} ELSE Offs(cycles)
<1> DEFINE n == Len(cycles)
<1>1. /\ n \in Nat /\ \A i \in 1 .. n : longer[i] = cycles[i]
      /\ longer[n + 1] = e /\ DOMAIN longer = 1 .. n + 1 /\ DOMAIN cycles = 1 .. n
  BY DEF Extended
<1>2. \A i \in 1 .. n + 1 : DgrBefore(longer, i) <=> DgrBefore(cycles, i)
  BY SelectedExtended
<1>3. Offs(cycles) = {i \in 1 .. n : cycles[i].address = 49247 /\ DgrBefore(cycles, i)}
  BY <1>1 DEF Offs
<1> HIDE DEF n
<1>4. Offs(longer) =
        {i \in (1 .. n) \cup {n + 1} : longer[i].address = 49247 /\ DgrBefore(longer, i)}
  <2>1. 1 .. n + 1 = (1 .. n) \cup {n + 1}
    BY <1>1
  <2> QED
    BY <1>1, <2>1 DEF Offs
<1>5. n + 1 \in 1 .. n + 1 /\ \A i \in 1 .. n : i \in 1 .. n + 1
  BY <1>1
<1>6. Offs(longer) = IF e.address = 49247 /\ DgrBefore(cycles, n + 1)
                     THEN Offs(cycles) \cup {n + 1} ELSE Offs(cycles)
  BY <1>1, <1>2, <1>3, <1>4, <1>5
<1> QED
  BY <1>3, <1>6 DEF n

LEMMA BitsExtended ==
  ASSUME NEW cycles, NEW e, NEW longer, Extended(longer, cycles, e),
         NEW s, NEW t, BitsKnown(s, cycles), BitStep(s, t, e.mode, e.address)
  PROVE  BitsKnown(t, longer)
<1> DEFINE n == Len(cycles)
           off == e.address = 49247 /\ DgrBefore(cycles, n + 1)
<1>1. n \in Nat /\ Len(longer) + 1 = n + 2
  BY DEF Extended
<1>2. /\ \A i \in 1 .. n + 1 : ColBefore(longer, i) <=> ColBefore(cycles, i)
      /\ DgrBefore(longer, n + 2) <=>
           e.address = 49246 \/ (e.address # 49247 /\ DgrBefore(cycles, n + 1))
      /\ ColBefore(longer, n + 2) <=>
           \/ e.mode = "WriteMem" /\ e.address = 49165
           \/ /\ ~ (e.mode = "WriteMem" /\ e.address = 49164)
              /\ ColBefore(cycles, n + 1)
  BY SelectedExtended
<1>3. /\ Offs(cycles) \subseteq 1 .. n
      /\ Offs(longer) = IF off THEN Offs(cycles) \cup {n + 1} ELSE Offs(cycles)
  BY OffsExtended
<1>4. /\ "DGR" \in s.soft_switches <=> DgrBefore(cycles, n + 1)
      /\ "80COL" \in s.soft_switches <=> ColBefore(cycles, n + 1)
      /\ "V7_MODE1" \in s.soft_switches <=>
           \A i \in Offs(cycles) : LastOff(cycles, i) => ColBefore(cycles, i)
      /\ "V7_MODE2" \in s.soft_switches <=>
           \A i \in Offs(cycles) : OffBefore(cycles, i) => ColBefore(cycles, i)
  BY DEF BitsKnown
<1>5. off <=> e.address = 49247 /\ "DGR" \in s.soft_switches
  BY <1>4
<1> HIDE DEF n, off
<1>6. \A i \in Offs(cycles) : i \in 1 .. n + 1 /\ i < n + 1 /\ ~ (n + 1 <= i)
  BY <1>1, <1>3
<1>7. /\ "V7_MODE1" \in t.soft_switches <=>
           \A i \in Offs(longer) : LastOff(longer, i) => ColBefore(longer, i)
      /\ "V7_MODE2" \in t.soft_switches <=>
           \A i \in Offs(longer) : OffBefore(longer, i) => ColBefore(longer, i)
  <2>1. CASE ~ off
    <3>1. Offs(longer) = Offs(cycles)
      BY <1>3, <2>1
    <3>2. /\ \A i : LastOff(longer, i) <=> LastOff(cycles, i)
          /\ \A i : OffBefore(longer, i) <=> OffBefore(cycles, i)
      BY <3>1 DEF LastOff, OffBefore
    <3>3. /\ "V7_MODE1" \in t.soft_switches <=> "V7_MODE1" \in s.soft_switches
          /\ "V7_MODE2" \in t.soft_switches <=> "V7_MODE2" \in s.soft_switches
      BY <1>5, <2>1 DEF BitStep
    <3> QED
      BY <1>2, <1>4, <1>6, <3>1, <3>2, <3>3
  <2>2. CASE off
    <3>1. Offs(longer) = Offs(cycles) \cup {n + 1}
      BY <1>3, <2>2
    <3>2. /\ LastOff(longer, n + 1)
          /\ \A i \in Offs(cycles) : ~ LastOff(longer, i)
      BY <1>1, <1>6, <3>1 DEF LastOff
    <3>3. \A i \in Offs(cycles) : OffBefore(longer, i) <=> LastOff(cycles, i)
      <4>1. ASSUME NEW i \in Offs(cycles), LastOff(cycles, i)
            PROVE  OffBefore(longer, i)
        <5>1. \A j \in Offs(longer) : j < n + 1 => j <= i
          BY <1>1, <3>1, <4>1 DEF LastOff
        <5> QED
          BY <1>6, <3>1, <3>2, <5>1 DEF OffBefore
      <4>2. ASSUME NEW i \in Offs(cycles), OffBefore(longer, i)
            PROVE  LastOff(cycles, i)
        <5>1. PICK k \in Offs(longer) : /\ LastOff(longer, k)
                                        /\ \A j \in Offs(longer) : j < k => j <= i
          BY <4>2 DEF OffBefore
        <5>2. k = n + 1
          BY <3>1, <3>2, <5>1
        <5> QED
          BY <1>6, <3>1, <5>1, <5>2 DEF LastOff
      <4> QED
        BY <4>1, <4>2
    <3>4. ~ OffBefore(longer, n + 1)
      <4>1. \A k \in Offs(longer) : ~ (n + 1 < k)
        BY <1>1, <1>6, <3>1
      <4> QED
        BY <4>1 DEF OffBefore
    <3>5. /\ "V7_MODE1" \in t.soft_switches <=> "80COL" \in s.soft_switches
          /\ "V7_MODE2" \in t.soft_switches <=> "V7_MODE1" \in s.soft_switches
      BY <1>5, <2>2 DEF BitStep
    <3>6. n + 1 \in 1 .. n + 1
      BY <1>1
    <3>7. (\A i \in Offs(longer) : LastOff(longer, i) => ColBefore(longer, i))
            <=> ColBefore(cycles, n + 1)
      BY <1>2, <3>1, <3>2, <3>6
    <3>8. (\A i \in Offs(longer) : OffBefore(longer, i) => ColBefore(longer, i))
            <=> \A i \in Offs(cycles) : LastOff(cycles, i) => ColBefore(cycles, i)
      BY <1>2, <1>6, <3>1, <3>3, <3>4
    <3> QED
      BY <1>4, <3>5, <3>7, <3>8
  <2> QED
    BY <2>1, <2>2
<1>8. /\ "DGR" \in t.soft_switches <=> DgrBefore(longer, n + 2)
      /\ "80COL" \in t.soft_switches <=> ColBefore(longer, n + 2)
  BY <1>2, <1>4 DEF BitStep
<1> QED
  BY <1>1, <1>7, <1>8 DEF BitsKnown

\* At a reset, and at power-on.
LEMMA BitsForgotten ==
  ASSUME NEW s, NEW cycles, DOMAIN cycles = {}, Len(cycles) = 0,
         s.soft_switches = {"TEXT", "V7_MODE1", "V7_MODE2"}
  PROVE  BitsKnown(s, cycles)
<1>1. Offs(cycles) = {}
  BY DEF Offs
<1>2. 1 .. (0 + 1) - 1 = {}
  OBVIOUS
<1>3. ~ DgrBefore(cycles, Len(cycles) + 1) /\ ~ ColBefore(cycles, Len(cycles) + 1)
  BY <1>2 DEF DgrBefore, ColBefore
<1> QED
  BY <1>1, <1>3 DEF BitsKnown

LEMMA PowerOnSwitches ==
  ASSUME NEW flash
  PROVE  BusPowerOn(flash).soft_switches = {"TEXT", "V7_MODE1", "V7_MODE2"}
<1> DEFINE others == PowerOn(flash)
           bus ==
             [apple_memory |-> [a \in Shadow |-> IF a \in DOMAIN Title THEN Title[a]
                                                 ELSE IF a \in Cleared THEN Blank ELSE 0],
              private_memory |-> [a \in Shadow |-> IF a \in Cleared THEN Blank ELSE 0],
              romx_unlocked |-> 0, romx_textbank |-> 0, reset_state |-> 0,
              videx_vterm_mem_selected |-> FALSE, videx_banknum |-> 0, videx_crtc_idx |-> 0,
              videx_crtc_regs |-> [r \in 0 .. 17 |-> CrtcDefaults[r + 1]],
              videx_vram |-> [v \in VideoRam |-> 0]]
           both == [f \in DOMAIN others \cup DOMAIN bus |->
                      IF f \in DOMAIN bus THEN bus[f] ELSE others[f]]
<1> HIDE DEF others, bus, both
<1>1. /\ "soft_switches" \in DOMAIN others
      /\ others.soft_switches = {"TEXT", "V7_MODE1", "V7_MODE2"}
  BY DEF others, PowerOn
<1>2. "soft_switches" \notin DOMAIN bus
  BY DEF bus
<1>3. both.soft_switches = {"TEXT", "V7_MODE1", "V7_MODE2"}
  BY <1>1, <1>2 DEF both
<1>4. config_load(both).soft_switches = both.soft_switches
  BY LoadKeepsBus DEF SameBus
<1>5. config_load(both) = BusPowerOn(flash)
  BY DEF BusPowerOn, both, bus, others
<1> QED
  BY <1>3, <1>4, <1>5

\* The program does not reach the registers of the card ...
NoRegisters == \A w \in Words : w[1] # "WriteDev"

\* ... and it is on the same kind of Apple throughout.
MachineKept ==
  "IIE_REGS" \in dev'.internal_flags <=> "IIE_REGS" \in dev.internal_flags

ModeInv ==
  ResetInv /\ ("IIE_REGS" \in dev.internal_flags => BitsKnown(dev, Recent))

LEMMA ModeInvInit == HistoryInit => ModeInv
<1> SUFFICES ASSUME HistoryInit
             PROVE  ModeInv
  OBVIOUS
<1>1. PICK c \in Saved : dev = BusPowerOn([FreshFlash EXCEPT !.config = c])
  BY DEF HistoryInit, Init, PoweredOn
<1>2. dev.soft_switches = {"TEXT", "V7_MODE1", "V7_MODE2"}
  BY <1>1, PowerOnSwitches
<1>3. DOMAIN Recent = {} /\ Len(Recent) = 0
  <2>1. log = << >>
    BY DEF HistoryInit
  <2>2. Resettings(log) = {}
    BY <2>1 DEF Resettings
  <2>3. Recent = SubSeq(log, 1, 0)
    BY <2>1, <2>2 DEF Recent, Since, LastReset
  <2>4. Recent = << >>
    BY <2>1, <2>3
  <2> QED
    BY <2>4
<1> QED
  BY <1>2, <1>3, BitsForgotten, ResetInvInit DEF ModeInv

LEMMA ModeInvNext ==
  NoRegisters /\ ModeInv /\ [HistoryNext]_vars /\ [MachineKept]_vars => ModeInv'
<1> SUFFICES ASSUME NoRegisters, ModeInv, [HistoryNext]_vars, [MachineKept]_vars
             PROVE  ModeInv'
  OBVIOUS
<1>1. ResetInv'
  BY ResetInvNext DEF ModeInv
<1>2. CASE UNCHANGED vars
  <2>1. dev' = dev /\ log' = log
    BY <1>2 DEF vars
  <2> QED
    BY <1>1, <2>1 DEF ModeInv, Recent
<1>3. ASSUME NEW x \in Words, Logged(x[1], x[2], x[3]), ~ UNCHANGED vars
      PROVE  ModeInv'
  <2> SUFFICES ASSUME "IIE_REGS" \in dev'.internal_flags
               PROVE  BitsKnown(dev', Recent')
    BY <1>1 DEF ModeInv
  <2>1. "IIE_REGS" \in dev.internal_flags /\ BitsKnown(dev, Recent)
    BY <1>3 DEF MachineKept, ModeInv
  <2>2. PICK e : /\ log' = Append(log, e)
                 /\ e.mode = x[1] /\ e.address \in Address
                 /\ e.mode \in {"WriteDev", "ReadDev"} => e.address \in DeviceSelect
                 /\ dev' = AfterCycle(dev, e.mode, e.address, e.data)
                 /\ e.reset \in BOOLEAN
                 /\ e.reset <=> ResetCycle(dev, e.mode, e.address)
                 /\ ResetCycle(dev, e.mode, e.address) => ClosedByReset(dev')
    BY <1>3, LoggedCycle DEF ModeInv
  <2>3. IF e.reset THEN DOMAIN Since(log') = {} /\ Len(Since(log')) = 0
        ELSE Extended(Since(log'), Since(log), e)
    BY <2>2, SinceExtended DEF ModeInv, ResetInv, HistoryInv
  <2>4. CASE e.reset
    <3>1. dev'.soft_switches = {"TEXT", "V7_MODE1", "V7_MODE2"}
      BY <2>2, <2>4 DEF ClosedByReset
    <3>2. BitsKnown(dev', Since(log'))
      BY <2>3, <2>4, <3>1, BitsForgotten
    <3> QED
      BY <3>2 DEF Recent
  <2>5. CASE ~ e.reset
    <3> DEFINE mode == e.mode
               address == e.address
               data == e.data
    <3>1. /\ mode # "WriteDev" /\ address \in Address
          /\ mode \in {"WriteDev", "ReadDev"} => address \in DeviceSelect
          /\ ~ ResetCycle(dev, mode, address)
          /\ dev' = AfterCycle(dev, mode, address, data)
      BY <2>2, <2>5 DEF NoRegisters
    <3>2. Ready(dev)
      BY DEF ModeInv, ResetInv, HistoryInv
    <3> HIDE DEF mode, address, data
    <3>3. BitStep(dev, AfterCycle(dev, mode, address, data), mode, address)
      BY <2>1, <3>1, <3>2, BitsOfCycle
    <3>4. BitStep(dev, dev', e.mode, e.address)
      BY <3>1, <3>3 DEF mode, address
    <3>5. BitsKnown(dev', Since(log'))
      BY <2>1, <2>3, <2>5, <3>4, BitsExtended DEF Recent
    <3> QED
      BY <3>5 DEF Recent
  <2> QED
    BY <2>2, <2>4, <2>5
<1> QED
  BY <1>2, <1>3 DEF HistoryNext

LEMMA ModeKnown == ModeInv => Video7Mode
<1> SUFFICES ASSUME "IIE_REGS" \in dev.internal_flags, BitsKnown(dev, Recent)
             PROVE  Video7Mode
  BY DEF ModeInv, Video7Mode
<1> DEFINE any(j) == TRUE
<1>1. DgrOffs = Offs(Recent)
  BY DEF DgrOffs, Offs, SwitchedOn, Touches, DgrBefore
<1>2. \A i : Wide(i) <=> ColBefore(Recent, i)
  BY DEF Wide, SwitchedOn, Touches, ColBefore
<1>3. /\ "V7_MODE1" \in dev.soft_switches <=>
           \A i \in DgrOffs : (\A j \in DgrOffs : j <= i) => Wide(i)
      /\ "V7_MODE2" \in dev.soft_switches <=>
           \A i \in DgrOffs :
             (\E k \in DgrOffs : /\ \A j \in DgrOffs : j <= k
                                 /\ i < k
                                 /\ \A j \in DgrOffs : j < k => j <= i) => Wide(i)
  BY <1>1, <1>2 DEF BitsKnown, LastOff, OffBefore
<1> QED
  BY <1>3 DEF Video7Mode

\* On an Apple IIe that stays one, the Video7 mode is 80COL at the last two times
\* at which the double resolution was really switched off, for every program that
\* does not reach the card's registers (businterface.c, v7_shift).
THEOREM Video7AlwaysShifted ==
  NoRegisters => (HistorySpec /\ [][MachineKept]_vars => []Video7Mode)
<1> SUFFICES ASSUME NoRegisters
             PROVE  HistorySpec /\ [][MachineKept]_vars => []Video7Mode
  OBVIOUS
<1>1. ModeInv /\ [HistoryNext]_vars /\ [MachineKept]_vars => ModeInv'
  BY ModeInvNext
<1> QED
  BY <1>1, ModeInvInit, ModeKnown, PTL DEF HistorySpec

-----------------------------------------------------------------------------
(* The Videx card.                                                         *)

\* From s to t, the state of the card stays.
SameCard(s, t) ==
  /\ DOMAIN t = DOMAIN s
  /\ t.videx_banknum = s.videx_banknum /\ t.videx_crtc_idx = s.videx_crtc_idx
  /\ t.videx_crtc_regs = s.videx_crtc_regs /\ t.videx_vram = s.videx_vram
  /\ t.videx_vterm_mem_selected = s.videx_vterm_mem_selected

LEMMA SwitchesKeepCard ==
  ASSUME NEW s, NEW mode, NEW address, NEW data
  PROVE  SameCard(s, apple2_softswitches(s, mode, address, data))
<1>1. \A x, on, name : SameCard(s, x) => SameCard(s, Switched(x, on, name))
  BY DEF SameCard, Switched
<1>2. SameCard(s, s)
  BY DEF SameCard
<1>3. SameCard(s, v7_shift(s))
  BY DEF SameCard, v7_shift
<1> QED
  BY <1>1, <1>2, <1>3, ZenonT(60) DEF apple2_softswitches

LEMMA DetectionKeepsBus ==
  ASSUME NEW s
  PROVE  SameBus(s, machine_auto_detection(s))
<1> DEFINE found == [s EXCEPT !.detected_machine = Recognised(s)]
<1>1. SameBus(s, found)
  BY DEF SameBus
<1> HIDE DEF found
<1>2. SameBus(found, set_machine(found, Recognised(s)))
  BY MachineKeepsBus
<1>3. SameBus(s, s)
  BY DEF SameBus
<1>4. machine_auto_detection(s) \in {s, found, set_machine(found, Recognised(s))}
  BY DEF machine_auto_detection, found
<1> QED
  BY <1>1, <1>2, <1>3, <1>4 DEF SameBus

LEMMA RamKeepsCard ==
  ASSUME NEW s, NEW address \in Nat, NEW data
  PROVE  SameCard(s, ram_write(s, address, data))
<1> DEFINE main == Store(s, "apple_memory", address, data)
           aux  == Store(s, "private_memory", address, data)
           found == machine_auto_detection(main)
           t    == ram_write(s, address, data)
<1>1. SameCard(s, s) /\ SameCard(s, main) /\ SameCard(s, aux)
  BY DEF SameCard, Store
<1>2. SameCard(s, found)
  <2> HIDE DEF main
  <2>1. SameBus(main, machine_auto_detection(main))
    BY DetectionKeepsBus
  <2> QED
    BY <1>1, <2>1 DEF SameCard, SameBus
<1> HIDE DEF main, aux, found, t
<1>3. CASE Paged(s, address)
  <2>1. t = IF "PAGE_2" \in s.soft_switches THEN aux ELSE main
    BY <1>3 DEF ram_write, t, main, aux
  <2> QED
    BY <1>1, <2>1 DEF t
<1>4. CASE ~ Paged(s, address) /\ address < 512
  <2>1. ~ (address >= 512)
    BY <1>4
  <2>2. t = s
    BY <1>4, <2>1 DEF ram_write, t
  <2> QED
    BY <1>1, <2>2 DEF t
<1>5. CASE ~ Paged(s, address) /\ ~ (address < 512)
  <2>1. address >= 512
    BY <1>5
  <2>2. t \in {aux, s, main, found}
    BY <1>5, <2>1 DEF ram_write, t, main, aux, found
  <2> QED
    BY <1>1, <1>2, <2>2 DEF t
<1> QED
  BY <1>3, <1>4, <1>5

LEMMA ResetKeepsCard ==
  ASSUME NEW s, NEW mode, NEW address
  PROVE  SameCard(s, reset_detection(s, mode, address))
<1> DEFINE t == reset_detection(s, mode, address)
<1>1. SameCard(s, Reset(s))
  BY DEF SameCard, Reset, Flag
<1>2. \A n : SameCard(s, [s EXCEPT !.reset_state = n])
  BY DEF SameCard
<1>3. CASE ResetCycle(s, mode, address)
  <2>1. t = Reset(s)
    BY <1>3 DEF ResetCycle, reset_detection
  <2> QED
    BY <1>1, <2>1
<1>4. CASE ~ ResetCycle(s, mode, address)
  <2>1. \E n \in 0 .. 2 : t = [s EXCEPT !.reset_state = n]
    BY <1>4 DEF ResetCycle, reset_detection
  <2> QED
    BY <1>2, <2>1
<1> QED
  BY <1>3, <1>4

\* The fields of the card are there.
CardReady(s) ==
  /\ {"videx_banknum", "videx_crtc_idx", "videx_crtc_regs", "videx_vram",
      "videx_vterm_mem_selected"} \subseteq DOMAIN s
  /\ s.videx_banknum \in 0 .. 3
  /\ DOMAIN s.videx_crtc_regs = 0 .. 17 /\ DOMAIN s.videx_vram = VideoRam

\* An Apple II, not an Apple IIe, with the card.
Present(s) == "VIDEX" \in s.internal_flags /\ "IIE_REGS" \notin s.internal_flags

\* What a cycle does to the card's registers, to the memory and to the window.
CardRegisters(s, t, mode, address, data) ==
  IF ~ (address \in 49328 .. 49343)
  THEN /\ t.videx_banknum = s.videx_banknum /\ t.videx_crtc_idx = s.videx_crtc_idx
       /\ t.videx_crtc_regs = s.videx_crtc_regs
  ELSE /\ t.videx_banknum = Bank(address)
       /\ t.videx_crtc_idx = IF mode = "WriteMem" /\ address % 2 = 0
                             THEN data ELSE s.videx_crtc_idx
       /\ t.videx_crtc_regs =
            IF mode = "WriteMem" /\ address % 2 = 1 /\ s.videx_crtc_idx \in 0 .. 17
            THEN [s.videx_crtc_regs EXCEPT ![s.videx_crtc_idx] = data]
            ELSE s.videx_crtc_regs

CardMemory(s, t, mode, address, data) ==
  t.videx_vram = s.videx_vram
  \/ /\ mode = "WriteMem" /\ address \in 52224 .. 52735 /\ s.videx_vterm_mem_selected
     /\ t.videx_vram = [s.videx_vram EXCEPT ![Window(s, address)] = data]

CardWindow(s, t, mode, address, data) ==
  t.videx_vterm_mem_selected =>
    \/ address \in 49920 .. 50175
    \/ s.videx_vterm_mem_selected /\ address \notin 52736 .. 53247

CardStep(s, t, mode, address, data) ==
  /\ DOMAIN t = DOMAIN s
  /\ CardRegisters(s, t, mode, address, data)
  /\ CardMemory(s, t, mode, address, data)
  /\ CardWindow(s, t, mode, address, data)

\* The addresses that may reach the card: the device and the expansion space.
CardSpace == 49280 .. 53247

LEMMA CardAccess ==
  ASSUME NEW s, CardReady(s), NEW mode \in {"ReadMem", "WriteMem"},
         NEW address \in CardSpace, NEW data
  PROVE  CardStep(s, videx_access(s, mode, address, data), mode, address, data)
<1> DEFINE t == videx_access(s, mode, address, data)
<1> SUFFICES CardStep(s, t, mode, address, data)
  OBVIOUS
<1> HIDE DEF t
<1>0. address \in 49280 .. 53247
  BY DEF CardSpace
<1> USE <1>0
<1>1. address % 2 = 0 <=> ~ (address % 2 = 1)
  OBVIOUS
<1>2. CASE address \in 49328 .. 49343
  <2>1. ~ (address \in 49920 .. 50175) /\ ~ (address >= 51200)
        /\ ~ (address \in 52224 .. 52735) /\ ~ (address \in 52736 .. 53247)
    BY <1>2, SMTT(30)
  <2> DEFINE bank == [s EXCEPT !.videx_banknum = Bank(address)]
  <2>2. /\ DOMAIN bank = DOMAIN s /\ bank.videx_banknum = Bank(address)
        /\ bank.videx_crtc_idx = s.videx_crtc_idx /\ bank.videx_crtc_regs = s.videx_crtc_regs
        /\ bank.videx_vram = s.videx_vram
        /\ bank.videx_vterm_mem_selected = s.videx_vterm_mem_selected
    BY DEF CardReady
  <2> HIDE DEF bank
  <2>3. CASE mode = "ReadMem"
    <3>1. t = bank
      BY <1>2, <2>1, <2>3 DEF videx_access, videx_reg_read, t, bank
    <3> QED
      BY <1>2, <2>1, <2>2, <2>3, <3>1 DEF CardStep, CardRegisters, CardMemory, CardWindow
  <2>4. CASE mode = "WriteMem"
    <3>1. t = videx_reg_write(s, address, data)
      BY <1>2, <2>1, <2>4 DEF videx_access, t
    <3>2. CASE address % 2 = 0
      <4>1. t = [bank EXCEPT !.videx_crtc_idx = data]
        BY <1>1, <3>1, <3>2 DEF videx_reg_write, bank
      <4> QED
        BY <1>1, <1>2, <2>1, <2>2, <2>4, <3>2, <4>1
           DEF CardReady, CardStep, CardRegisters, CardMemory, CardWindow
    <3>3. CASE address % 2 = 1 /\ s.videx_crtc_idx \in 0 .. 17
      <4>1. t = [bank EXCEPT !.videx_crtc_regs[s.videx_crtc_idx] = data]
        BY <1>1, <3>1, <3>3 DEF videx_reg_write, bank
      <4> QED
        BY <1>1, <1>2, <2>1, <2>2, <2>4, <3>3, <4>1
           DEF CardReady, CardStep, CardRegisters, CardMemory, CardWindow
    <3>4. CASE address % 2 = 1 /\ ~ (s.videx_crtc_idx \in 0 .. 17)
      <4>1. t = bank
        BY <1>1, <3>1, <3>4 DEF videx_reg_write, bank
      <4> QED
        BY <1>1, <1>2, <2>1, <2>2, <2>4, <3>4, <4>1
           DEF CardStep, CardRegisters, CardMemory, CardWindow
    <3> QED
      BY <1>1, <3>2, <3>3, <3>4
  <2> QED
    BY <2>3, <2>4
<1>3. CASE address \in 49920 .. 50175
  <2>1. ~ (address \in 49328 .. 49343) /\ ~ (address >= 51200)
    BY <1>3
  <2>2. t = [s EXCEPT !.videx_vterm_mem_selected = TRUE]
    BY <1>3, <2>1 DEF videx_access, t
  <2> QED
    BY <1>3, <2>1, <2>2 DEF CardReady, CardStep, CardRegisters, CardMemory, CardWindow
<1>4. CASE address >= 51200 /\ s.videx_vterm_mem_selected
  <2>1. ~ (address \in 49328 .. 49343) /\ ~ (address \in 49920 .. 50175)
    BY <1>4, SMTT(30)
  <2>2. t = videx_c8xx(s, mode, address, data)
    BY <1>4, <2>1 DEF videx_access, t
  <2>3. CASE address >= 52736
    <3>1. ~ (address \in 52224 .. 52735)
      BY <2>3, SMTT(30)
    <3>2. t = [s EXCEPT !.videx_vterm_mem_selected = FALSE]
      BY <2>2, <2>3, <3>1 DEF videx_c8xx
    <3> QED
      BY <2>1, <3>2 DEF CardReady, CardStep, CardRegisters, CardMemory, CardWindow
  <2>4. CASE ~ (address >= 52736)
    <3>1. address \notin 52736 .. 53247
      BY <2>4, SMTT(30)
    <3>2. CASE mode = "WriteMem" /\ address \in 52224 .. 52735
                 /\ Window(s, address) \in VideoRam
      <4>1. t = [s EXCEPT !.videx_vram[Window(s, address)] = data]
        BY <2>2, <2>4, <3>2 DEF videx_c8xx
      <4> QED
        BY <1>4, <2>1, <3>1, <3>2, <4>1
           DEF CardReady, CardStep, CardRegisters, CardMemory, CardWindow
    <3>3. CASE ~ (mode = "WriteMem" /\ address \in 52224 .. 52735
                    /\ Window(s, address) \in VideoRam)
      <4>1. t = s
        BY <2>2, <2>4, <3>3 DEF videx_c8xx
      <4> QED
        BY <1>4, <2>1, <3>1, <4>1 DEF CardStep, CardRegisters, CardMemory, CardWindow
    <3> QED
      BY <3>2, <3>3
  <2> QED
    BY <2>3, <2>4
<1>5. CASE /\ ~ (address \in 49328 .. 49343) /\ ~ (address \in 49920 .. 50175)
           /\ ~ (address >= 51200 /\ s.videx_vterm_mem_selected)
  <2>1. t = s
    BY <1>5 DEF videx_access, t
  <2>2. address \in 52736 .. 53247 => ~ s.videx_vterm_mem_selected
    BY <1>5, SMTT(30)
  <2> QED
    BY <1>5, <2>1, <2>2 DEF CardStep, CardRegisters, CardMemory, CardWindow
<1> QED
  BY <1>2, <1>3, <1>4, <1>5

\* A cycle that does not reach the card leaves it alone.
LEMMA CardElsewhere ==
  ASSUME NEW s, NEW t, SameCard(s, t), NEW mode, NEW address, NEW data,
         ~ (address \in 49328 .. 49343), ~ (address \in 52736 .. 53247)
  PROVE  CardStep(s, t, mode, address, data)
BY DEF SameCard, CardStep, CardRegisters, CardMemory, CardWindow

LEMMA CardStepTwice ==
  ASSUME NEW s, NEW t, NEW u, NEW v, SameCard(s, t), SameCard(u, v),
         NEW mode, NEW address, NEW data, CardStep(t, u, mode, address, data)
  PROVE  CardStep(s, v, mode, address, data)
<1>1. Window(t, address) = Window(s, address)
  BY DEF Window, SameCard
<1> QED
  BY <1>1 DEF SameCard, CardStep, CardRegisters, CardMemory, CardWindow

\* A whole cycle, as the card sees it.
LEMMA CardOfCycle ==
  ASSUME NEW s, CardReady(s), Present(s), NEW mode \in {"ReadMem", "WriteMem"},
         NEW address \in Address, NEW data
  PROVE  CardStep(s, AfterCycle(s, mode, address, data), mode, address, data)
<1> DEFINE seen == IF mode = "ReadMem" THEN check_romx_read(s, address) ELSE s
           e == apple2emulation(s, mode, address, data)
           r == reset_detection(e, mode, address)
           t == AfterCycle(s, mode, address, data)
<1> HIDE DEF seen, e, r, t
<1>1. SameCard(s, s) /\ SameCard(seen, seen)
  BY DEF SameCard
<1>2. SameCard(s, seen) /\ Present(seen)
  <2>1. CASE mode = "ReadMem"
    BY <2>1, RomxKeepsBus DEF SameBus, SameCard, Present, seen
  <2>2. CASE mode # "ReadMem"
    BY <1>1, <2>2 DEF seen
  <2> QED
    BY <2>1, <2>2
<1>3. CardReady(seen)
  BY <1>2 DEF SameCard, CardReady
<1>4. address \in Nat
  BY Addresses
<1>5. CardStep(s, e, mode, address, data)
  <2>1. CASE mode = "WriteMem" /\ address < 24576
    <3>1. e = ram_write(s, address, data)
      BY <1>4, <2>1, WriteEmulated DEF e
    <3>2. SameCard(s, e)
      BY <1>4, <3>1, RamKeepsCard
    <3>3. ~ (address \in 49328 .. 49343) /\ ~ (address \in 52736 .. 53247)
      BY <2>1
    <3> QED
      BY <3>2, <3>3, CardElsewhere
  <2>2. CASE ~ (mode = "WriteMem" /\ address < 24576) /\ address \in 49152 .. 53247
    <3>1. e = register_access(seen, mode, address, data)
      BY <2>2 DEF apple2emulation, e, seen
    <3>2. CASE address < 49280
      <4>1. ~ (address \in 49328 .. 49343) /\ ~ (address \in 52736 .. 53247)
            /\ ~ (address >= 49280)
        BY <1>4, <3>2
      <4>2. e = apple2_softswitches(seen, mode, address, data)
        BY <3>1, <3>2, <4>1 DEF register_access
      <4>3. SameCard(seen, e)
        BY <4>2, SwitchesKeepCard
      <4>4. CardStep(seen, e, mode, address, data)
        BY <4>1, <4>3, CardElsewhere
      <4>5. SameCard(e, e)
        BY DEF SameCard
      <4> QED
        BY <1>2, <4>4, <4>5, CardStepTwice
    <3>3. CASE ~ (address < 49280)
      <4>1. address >= 49280 /\ address \in CardSpace
        BY <1>4, <2>2, <3>3 DEF CardSpace
      <4>2. e = videx_access(seen, mode, address, data)
        BY <1>2, <3>1, <3>3, <4>1 DEF register_access, Present
      <4>3. CardStep(seen, videx_access(seen, mode, address, data), mode, address, data)
        BY <1>3, <4>1, CardAccess
      <4>4. SameCard(e, e)
        BY DEF SameCard
      <4> QED
        BY <1>2, <4>2, <4>3, <4>4, CardStepTwice
    <3> QED
      BY <3>2, <3>3
  <2>3. CASE ~ (mode = "WriteMem" /\ address < 24576) /\ ~ (address \in 49152 .. 53247)
    <3>1. e = seen
      BY <2>3 DEF apple2emulation, e, seen
    <3>2. ~ (address \in 49328 .. 49343) /\ ~ (address \in 52736 .. 53247)
      BY <2>3
    <3> QED
      BY <1>2, <3>1, <3>2, CardElsewhere
  <2> QED
    BY <2>1, <2>2, <2>3
<1>6. SameCard(e, r)
  BY ResetKeepsCard DEF r
<1>7. SameCard(r, t)
  <2>1. t = [r EXCEPT !.trail = << >>]
    BY DEF AfterCycle, businterface, e, r, t
  <2> HIDE DEF t
  <2> QED
    BY <2>1 DEF SameCard
<1>8. SameCard(e, t)
  BY <1>6, <1>7 DEF SameCard
<1>9. CardStep(s, t, mode, address, data)
  BY <1>1, <1>5, <1>8, CardStepTwice
<1> QED
  BY <1>9 DEF t

LEMMA CardStaysReady ==
  ASSUME NEW s, CardReady(s), NEW t, NEW mode, NEW address \in Nat, NEW data,
         CardStep(s, t, mode, address, data)
  PROVE  CardReady(t)
<1>1. Bank(address) \in 0 .. 3
  BY DEF Bank
<1>2. DOMAIN t.videx_crtc_regs = 0 .. 17 /\ t.videx_banknum \in 0 .. 3
  BY <1>1 DEF CardReady, CardStep, CardRegisters
<1>3. DOMAIN t.videx_vram = VideoRam
  BY DEF CardReady, CardStep, CardMemory
<1> QED
  BY <1>2, <1>3 DEF CardReady, CardStep

\* The accesses to the card's registers, the writes among them; what the last write to
\* an even one before cycle i selected; and the writes to the CRTC's register r.
Accesses(cycles) == {i \in DOMAIN cycles : cycles[i].address \in 49328 .. 49343}

CardWrites(cycles) == {i \in Accesses(cycles) : cycles[i].mode = "WriteMem"}

Indexed(cycles, i, r) ==
  \E j \in CardWrites(cycles) :
    /\ j < i /\ cycles[j].address % 2 = 0 /\ cycles[j].data = r
    /\ \A m \in CardWrites(cycles) \cap (j + 1 .. i) : cycles[m].address % 2 = 1

RegisterWrites(cycles, r) ==
  {i \in CardWrites(cycles) : cycles[i].address % 2 = 1 /\ Indexed(cycles, i, r)}

RegisterHolds(s, cycles, r) ==
  /\ s.videx_crtc_idx = r <=> Indexed(cycles, Len(cycles) + 1, r)
  /\ RegisterWrites(cycles, r) = {} => s.videx_crtc_regs[r] = CrtcDefaults[r + 1]
  /\ RegisterWrites(cycles, r) # {} =>
       \E i \in RegisterWrites(cycles, r) : /\ \A j \in RegisterWrites(cycles, r) : j <= i
                                    /\ s.videx_crtc_regs[r] = cycles[i].data

\* One more cycle.
LEMMA AccessesExtended ==
  ASSUME NEW cycles, NEW e, NEW longer, Extended(longer, cycles, e)
  PROVE  LET n      == Len(cycles)
             access == e.address \in 49328 .. 49343
         IN  /\ Accesses(cycles) \subseteq 1 .. n /\ CardWrites(cycles) \subseteq 1 .. n
             /\ Accesses(longer) = IF access THEN Accesses(cycles) \cup {n + 1}
                                   ELSE Accesses(cycles)
             /\ CardWrites(longer) = IF access /\ e.mode = "WriteMem"
                                     THEN CardWrites(cycles) \cup {n + 1}
                                     ELSE CardWrites(cycles)
<1> DEFINE n == Len(cycles)
           access == e.address \in 49328 .. 49343
<1>1. /\ n \in Nat /\ \A i \in 1 .. n : longer[i] = cycles[i]
      /\ longer[n + 1] = e /\ DOMAIN longer = 1 .. n + 1 /\ DOMAIN cycles = 1 .. n
  BY DEF Extended
<1> HIDE DEF n
<1>2. 1 .. n + 1 = (1 .. n) \cup {n + 1}
  BY <1>1
<1>3. Accesses(cycles) = {i \in 1 .. n : cycles[i].address \in 49328 .. 49343}
  BY <1>1 DEF Accesses
<1>4. Accesses(longer) =
        {i \in (1 .. n) \cup {n + 1} : longer[i].address \in 49328 .. 49343}
  BY <1>1, <1>2 DEF Accesses
<1>5. Accesses(longer) = IF access THEN Accesses(cycles) \cup {n + 1} ELSE Accesses(cycles)
  BY <1>1, <1>3, <1>4, SMTT(30)
<1>6. Accesses(cycles) \subseteq 1 .. n /\ CardWrites(cycles) \subseteq 1 .. n
  BY <1>3 DEF CardWrites
<1>7. CardWrites(longer) = IF access /\ e.mode = "WriteMem"
                           THEN CardWrites(cycles) \cup {n + 1} ELSE CardWrites(cycles)
  BY <1>1, <1>5, <1>6 DEF CardWrites
<1> QED
  BY <1>5, <1>6, <1>7 DEF n

LEMMA IndexedExtended ==
  ASSUME NEW cycles, NEW e, NEW longer, Extended(longer, cycles, e), NEW r
  PROVE  LET n     == Len(cycles)
             write == e.address \in 49328 .. 49343 /\ e.mode = "WriteMem"
         IN  /\ \A i \in 1 .. n : Indexed(longer, i, r) <=> Indexed(cycles, i, r)
             /\ write /\ e.address % 2 = 1 =>
                  (Indexed(longer, n + 1, r) <=> Indexed(cycles, n + 1, r))
             /\ Indexed(longer, n + 2, r) <=>
                  IF write /\ e.address % 2 # 1
                  THEN e.address % 2 = 0 /\ e.data = r ELSE Indexed(cycles, n + 1, r)
<1> DEFINE n == Len(cycles)
           write == e.address \in 49328 .. 49343 /\ e.mode = "WriteMem"
           W == CardWrites(cycles)
           odd == e.address % 2 = 1
           even == e.address % 2 = 0
<1>1. /\ n \in Nat /\ \A i \in 1 .. n : longer[i] = cycles[i]
      /\ longer[n + 1] = e
  BY DEF Extended
<1>2. /\ W \subseteq 1 .. n
      /\ CardWrites(longer) = IF write THEN W \cup {n + 1} ELSE W
  BY AccessesExtended
<1>3. \A i : Indexed(cycles, i, r) <=>
        \E j \in W : /\ j < i /\ cycles[j].address % 2 = 0 /\ cycles[j].data = r
                     /\ \A m \in W \cap (j + 1 .. i) : cycles[m].address % 2 = 1
  BY DEF Indexed
<1>4. \A i : Indexed(longer, i, r) <=>
        \E j \in CardWrites(longer) :
          /\ j < i /\ longer[j].address % 2 = 0 /\ longer[j].data = r
          /\ \A m \in CardWrites(longer) \cap (j + 1 .. i) : longer[m].address % 2 = 1
  BY DEF Indexed
<1>5. /\ longer[n + 1].address % 2 = 1 <=> odd
      /\ longer[n + 1].address % 2 = 0 <=> even
      /\ \A j \in W : /\ longer[j] = cycles[j] /\ j \in 1 .. n
                      /\ longer[j].address % 2 = cycles[j].address % 2
  BY <1>1, <1>2
<1>6. ~ (n + 1 \in W) /\ \A j \in W : j < n + 1 /\ j < n + 2 /\ n + 1 \in j + 1 .. n + 1
                                      /\ n + 1 \in j + 1 .. n + 2
  BY <1>1, <1>2
<1> HIDE DEF n, write, W, odd, even
<1>7. ASSUME NEW i \in 1 .. n
      PROVE  Indexed(longer, i, r) <=> Indexed(cycles, i, r)
  <2>1. ~ (n + 1 < i) /\ \A j : ~ (n + 1 \in j + 1 .. i)
    BY <1>1, <1>7
  <2>2. \A j \in CardWrites(longer) : j < i => j \in W
    BY <1>2, <2>1
  <2>3. \A j \in W : CardWrites(longer) \cap (j + 1 .. i) = W \cap (j + 1 .. i)
    BY <1>2, <2>1
  <2>4. \A j \in W : j \in CardWrites(longer)
    BY <1>2
  <2>5. Indexed(longer, i, r) <=>
          \E j \in W : /\ j < i /\ longer[j].address % 2 = 0 /\ longer[j].data = r
                       /\ \A m \in W \cap (j + 1 .. i) : longer[m].address % 2 = 1
    BY <1>4, <2>2, <2>3, <2>4
  <2> QED
    BY <1>3, <1>5, <2>5
<1>8. ASSUME write /\ odd
      PROVE  Indexed(longer, n + 1, r) <=> Indexed(cycles, n + 1, r)
  <2>1. CardWrites(longer) = W \cup {n + 1}
    BY <1>2, <1>8
  <2>2. ~ (n + 1 < n + 1)
    BY <1>1
  <2> QED
    BY <1>3, <1>4, <1>5, <1>6, <1>8, <2>1, <2>2
<1>9. Indexed(longer, n + 2, r) <=>
        IF write /\ ~ odd THEN even /\ e.data = r ELSE Indexed(cycles, n + 1, r)
  <2>1. \A j \in W : W \cap (j + 1 .. n + 2) = W \cap (j + 1 .. n + 1)
    BY <1>1, <1>2
  <2>2. CASE ~ write
    <3>1. CardWrites(longer) = W
      BY <1>2, <2>2
    <3> QED
      BY <1>3, <1>4, <1>5, <1>6, <2>1, <2>2, <3>1
  <2>3. CASE write /\ odd
    <3>1. CardWrites(longer) = W \cup {n + 1}
      BY <1>2, <2>3
    <3>2. \A j \in W : (W \cup {n + 1}) \cap (j + 1 .. n + 2)
                         = (W \cap (j + 1 .. n + 1)) \cup {n + 1}
      BY <1>6, <2>1
    <3>3. ~ even
      BY <2>3 DEF odd, even
    <3> QED
      BY <1>3, <1>4, <1>5, <1>6, <2>3, <3>1, <3>2, <3>3
  <2>4. CASE write /\ ~ odd
    <3>1. CardWrites(longer) = W \cup {n + 1}
      BY <1>2, <2>4
    <3>2. n + 1 < n + 2 /\ (W \cup {n + 1}) \cap ((n + 1) + 1 .. n + 2) = {}
      BY <1>1, <1>2
    <3> QED
      BY <1>1, <1>4, <1>5, <1>6, <2>4, <3>1, <3>2
  <2> QED
    BY <2>2, <2>3, <2>4
<1> QED
  BY <1>7, <1>8, <1>9 DEF n, write, odd, even

LEMMA RegisterExtended ==
  ASSUME NEW cycles, NEW e, NEW longer, Extended(longer, cycles, e),
         NEW s, NEW t, CardReady(s), e.address \in Nat,
         CardRegisters(s, t, e.mode, e.address, e.data),
         NEW r \in 12 .. 15, RegisterHolds(s, cycles, r)
  PROVE  RegisterHolds(t, longer, r)
<1> DEFINE n == Len(cycles)
           access == e.address \in 49328 .. 49343
           write == access /\ e.mode = "WriteMem"
           odd == e.address % 2 = 1
           even == e.address % 2 = 0
           V == RegisterWrites(cycles, r)
           known == Indexed(cycles, n + 1, r)
           idx == s.videx_crtc_idx
           regs == s.videx_crtc_regs
<1>1. /\ n \in Nat /\ \A i \in 1 .. n : longer[i] = cycles[i]
      /\ longer[n + 1] = e /\ Len(longer) + 1 = n + 2
  BY DEF Extended
<1>2. even <=> ~ odd
  <2>1. \A a \in Nat : a % 2 = 0 <=> ~ (a % 2 = 1)
    OBVIOUS
  <2> QED
    BY <2>1
<1>3. /\ \A i \in 1 .. n : Indexed(longer, i, r) <=> Indexed(cycles, i, r)
      /\ write /\ odd => (Indexed(longer, n + 1, r) <=> known)
      /\ Indexed(longer, n + 2, r) <=> IF write /\ ~ odd THEN even /\ e.data = r ELSE known
  BY IndexedExtended
<1>4. /\ CardWrites(cycles) \subseteq 1 .. n
      /\ CardWrites(longer) = IF write THEN CardWrites(cycles) \cup {n + 1}
                              ELSE CardWrites(cycles)
  BY AccessesExtended
<1>5. V \subseteq 1 .. n
  BY <1>4 DEF RegisterWrites
<1>6. RegisterWrites(longer, r) = IF write /\ odd /\ known THEN V \cup {n + 1} ELSE V
  <2>1. /\ V = {i \in CardWrites(cycles) : cycles[i].address % 2 = 1 /\ Indexed(cycles, i, r)}
        /\ RegisterWrites(longer, r) =
             {i \in CardWrites(longer) : longer[i].address % 2 = 1 /\ Indexed(longer, i, r)}
    BY DEF RegisterWrites
  <2>2. /\ longer[n + 1].address % 2 = 1 <=> odd
        /\ \A i \in CardWrites(cycles) : longer[i].address % 2 = cycles[i].address % 2
    BY <1>1, <1>4
  <2> HIDE DEF n, write, odd, known, V
  <2> QED
    BY <1>3, <1>4, <2>1, <2>2
<1>7. /\ idx = r <=> known
      /\ V = {} => regs[r] = CrtcDefaults[r + 1]
      /\ V # {} => \E i \in V : (\A j \in V : j <= i) /\ regs[r] = cycles[i].data
  BY DEF RegisterHolds
<1>8. /\ t.videx_crtc_idx = IF write /\ even THEN e.data ELSE idx
      /\ t.videx_crtc_regs = IF write /\ odd /\ idx \in 0 .. 17
                             THEN [regs EXCEPT ![idx] = e.data] ELSE regs
  BY DEF CardRegisters
<1>9. DOMAIN regs = 0 .. 17 /\ r \in 0 .. 17
  BY DEF CardReady
<1> HIDE DEF n, write, odd, even, V, known, idx, regs
<1>10. t.videx_crtc_idx = r <=> Indexed(longer, Len(longer) + 1, r)
  BY <1>1, <1>2, <1>3, <1>7, <1>8
<1>11. CASE write /\ odd /\ known
  <2>1. t.videx_crtc_regs[r] = e.data
    BY <1>7, <1>8, <1>9, <1>11
  <2>2. RegisterWrites(longer, r) = V \cup {n + 1}
    BY <1>6, <1>11
  <2>3. \A j \in V \cup {n + 1} : j <= n + 1
    BY <1>1, <1>5
  <2> QED
    BY <1>1, <1>10, <2>1, <2>2, <2>3 DEF RegisterHolds
<1>12. CASE ~ (write /\ odd /\ known)
  <2>1. RegisterWrites(longer, r) = V
    BY <1>6, <1>12
  <2>2. t.videx_crtc_regs[r] = regs[r]
    BY <1>7, <1>8, <1>9, <1>12
  <2>3. \A i \in V : longer[i] = cycles[i]
    BY <1>1, <1>5
  <2> QED
    BY <1>7, <1>10, <2>1, <2>2, <2>3 DEF RegisterHolds
<1> QED
  BY <1>11, <1>12

\* The addresses that give the card the window, and that take it away.
CardPage(address)  == address \in 49920 .. 50175
TakesAway(address) == address \in 52736 .. 53247

\* The card's page was touched after the last access that takes the window away.
WindowOpen(cycles) ==
  \E i \in 1 .. Len(cycles) :
    /\ CardPage(cycles[i].address)
    /\ \A j \in i + 1 .. Len(cycles) : ~ TakesAway(cycles[j].address)

\* The bank is the one that the last access to the registers selected.
BankOfLast(bank, cycles) ==
  \A i \in Accesses(cycles) :
    (\A j \in Accesses(cycles) : j <= i) => Bank(cycles[i].address) = bank

LEMMA WindowExtended ==
  ASSUME NEW cycles, NEW e, NEW longer, Extended(longer, cycles, e),
         NEW s, NEW t, CardWindow(s, t, e.mode, e.address, e.data),
         s.videx_vterm_mem_selected => WindowOpen(cycles)
  PROVE  t.videx_vterm_mem_selected => WindowOpen(longer)
<1> DEFINE n == Len(cycles)
<1>1. /\ n \in Nat /\ \A i \in 1 .. n : longer[i] = cycles[i] /\ i \in 1 .. n + 1
      /\ longer[n + 1] = e /\ Len(longer) = n + 1 /\ n + 1 \in 1 .. n + 1
  BY DEF Extended
<1>2. /\ \A i \in 1 .. n : /\ i + 1 .. n + 1 = (i + 1 .. n) \cup {n + 1}
                           /\ i + 1 .. n \subseteq 1 .. n
      /\ (n + 1) + 1 .. n + 1 = {}
  BY <1>1
<1>3. WindowOpen(cycles) =>
        \E i \in 1 .. n : /\ CardPage(cycles[i].address)
                          /\ \A j \in i + 1 .. n : ~ TakesAway(cycles[j].address)
  BY DEF WindowOpen
<1>4. t.videx_vterm_mem_selected =>
        \/ CardPage(e.address)
        \/ s.videx_vterm_mem_selected /\ ~ TakesAway(e.address)
  BY DEF CardWindow, CardPage, TakesAway
<1> HIDE DEF n
<1>5. CASE CardPage(e.address)
  BY <1>1, <1>2, <1>5 DEF WindowOpen
<1>6. CASE WindowOpen(cycles) /\ ~ TakesAway(e.address)
  <2>1. PICK i \in 1 .. n : /\ CardPage(cycles[i].address)
                            /\ \A j \in i + 1 .. n : ~ TakesAway(cycles[j].address)
    BY <1>3, <1>6
  <2>2. ASSUME NEW j \in i + 1 .. n + 1
        PROVE  ~ TakesAway(longer[j].address)
    BY <1>1, <1>2, <1>6, <2>1, <2>2
  <2> QED
    BY <1>1, <2>1, <2>2 DEF WindowOpen
<1> QED
  BY <1>4, <1>5, <1>6

LEMMA LastBankExtended ==
  ASSUME NEW cycles, NEW e, NEW longer, Extended(longer, cycles, e),
         NEW s, NEW t, CardRegisters(s, t, e.mode, e.address, e.data),
         BankOfLast(s.videx_banknum, cycles)
  PROVE  BankOfLast(t.videx_banknum, longer)
<1> DEFINE n == Len(cycles)
           access == e.address \in 49328 .. 49343
           A == Accesses(cycles)
<1>1. /\ n \in Nat /\ \A i \in 1 .. n : longer[i] = cycles[i]
      /\ longer[n + 1] = e
  BY DEF Extended
<1>2. A \subseteq 1 .. n /\ Accesses(longer) = IF access THEN A \cup {n + 1} ELSE A
  BY AccessesExtended
<1>3. t.videx_banknum = IF access THEN Bank(e.address) ELSE s.videx_banknum
  BY DEF CardRegisters
<1>4. \A i \in A : (\A j \in A : j <= i) => Bank(cycles[i].address) = s.videx_banknum
  BY DEF BankOfLast
<1> HIDE DEF n, access, A
<1>5. CASE access
  <2>1. \A i \in A : ~ (n + 1 <= i)
    BY <1>1, <1>2
  <2> QED
    BY <1>1, <1>2, <1>3, <1>5, <2>1 DEF BankOfLast
<1>6. CASE ~ access
  BY <1>1, <1>2, <1>3, <1>4, <1>6 DEF BankOfLast
<1> QED
  BY <1>5, <1>6

LEMMA PowerOnCard ==
  ASSUME NEW flash
  PROVE  LET s == BusPowerOn(flash)
         IN  /\ CardReady(s) /\ s.videx_vterm_mem_selected = FALSE
             /\ s.videx_crtc_idx = 0
             /\ \A r \in 0 .. 17 : s.videx_crtc_regs[r] = CrtcDefaults[r + 1]
<1> DEFINE others == PowerOn(flash)
           regs == [r \in 0 .. 17 |-> CrtcDefaults[r + 1]]
           vram == [v \in VideoRam |-> 0]
           bus ==
             [apple_memory |-> [a \in Shadow |-> IF a \in DOMAIN Title THEN Title[a]
                                                 ELSE IF a \in Cleared THEN Blank ELSE 0],
              private_memory |-> [a \in Shadow |-> IF a \in Cleared THEN Blank ELSE 0],
              romx_unlocked |-> 0, romx_textbank |-> 0, reset_state |-> 0,
              videx_vterm_mem_selected |-> FALSE, videx_banknum |-> 0, videx_crtc_idx |-> 0,
              videx_crtc_regs |-> regs, videx_vram |-> vram]
           both == [f \in DOMAIN others \cup DOMAIN bus |->
                      IF f \in DOMAIN bus THEN bus[f] ELSE others[f]]
<1>1. config_load(both) = BusPowerOn(flash)
  BY DEF BusPowerOn
<1>2. /\ DOMAIN regs = 0 .. 17 /\ \A r \in 0 .. 17 : regs[r] = CrtcDefaults[r + 1]
      /\ DOMAIN vram = VideoRam
  OBVIOUS
<1> HIDE DEF others, regs, vram
<1>3. /\ {"videx_banknum", "videx_crtc_idx", "videx_crtc_regs", "videx_vram",
          "videx_vterm_mem_selected"} \subseteq DOMAIN bus
      /\ bus.videx_vterm_mem_selected = FALSE /\ bus.videx_banknum = 0
      /\ bus.videx_crtc_idx = 0 /\ bus.videx_crtc_regs = regs /\ bus.videx_vram = vram
  OBVIOUS
<1> HIDE DEF bus
<1>4. /\ {"videx_banknum", "videx_crtc_idx", "videx_crtc_regs", "videx_vram",
          "videx_vterm_mem_selected"} \subseteq DOMAIN both
      /\ both.videx_vterm_mem_selected = FALSE /\ both.videx_banknum = 0
      /\ both.videx_crtc_idx = 0 /\ both.videx_crtc_regs = regs /\ both.videx_vram = vram
  BY <1>3
<1> HIDE DEF both
<1> DEFINE t == config_load(both)
<1>5. SameBus(both, t)
  BY LoadKeepsBus
<1> HIDE DEF t
<1>6. /\ CardReady(t) /\ t.videx_vterm_mem_selected = FALSE
      /\ t.videx_crtc_idx = 0
      /\ \A r \in 0 .. 17 : t.videx_crtc_regs[r] = CrtcDefaults[r + 1]
  BY <1>2, <1>4, <1>5 DEF SameBus, CardReady
<1> QED
  BY <1>1, <1>6 DEF t

\* The program reads and writes memory only, no card's own registers.
NoDevice == \A w \in Words : w[1] \notin {"WriteDev", "ReadDev"}

CardInv ==
  /\ ResetInv /\ CardReady(dev)
  /\ dev.videx_vterm_mem_selected => WindowOpen(log)
  /\ BankOfLast(dev.videx_banknum, log)
  /\ \A r \in 12 .. 15 : RegisterHolds(dev, log, r)

LEMMA CardInvInit == HistoryInit => CardInv
<1> SUFFICES ASSUME HistoryInit
             PROVE  CardInv
  OBVIOUS
<1>1. PICK c \in Saved : dev = BusPowerOn([FreshFlash EXCEPT !.config = c])
  BY DEF HistoryInit, Init, PoweredOn
<1>2. /\ CardReady(dev) /\ dev.videx_vterm_mem_selected = FALSE
      /\ dev.videx_crtc_idx = 0
      /\ \A r \in 0 .. 17 : dev.videx_crtc_regs[r] = CrtcDefaults[r + 1]
  BY <1>1, PowerOnCard
<1>3. DOMAIN log = {}
  BY DEF HistoryInit
<1>4. Accesses(log) = {} /\ CardWrites(log) = {}
  BY <1>3 DEF Accesses, CardWrites
<1>5. \A r : RegisterWrites(log, r) = {} /\ \A i : ~ Indexed(log, i, r)
  BY <1>4 DEF RegisterWrites, Indexed
<1>6. \A r \in 12 .. 15 : r # 0 /\ r \in 0 .. 17
  OBVIOUS
<1>7. \A r \in 12 .. 15 : RegisterHolds(dev, log, r)
  BY <1>2, <1>5, <1>6 DEF RegisterHolds
<1> QED
  BY <1>2, <1>4, <1>7, ResetInvInit DEF CardInv, BankOfLast

\* One cycle of such a program.
LEMMA CardCycle ==
  ASSUME NoDevice, CardInv, Present(dev), NEW x \in Words, Logged(x[1], x[2], x[3])
  PROVE  \E e : /\ Extended(log', log, e) /\ e.address \in Nat
                /\ CardStep(dev, dev', e.mode, e.address, e.data)
<1>1. PICK e : /\ Extended(log', log, e)
               /\ e.mode = x[1] /\ e.address \in Address
               /\ dev' = AfterCycle(dev, e.mode, e.address, e.data)
  BY LoggedCycle DEF CardInv
<1> DEFINE mode == e.mode
           address == e.address
           data == e.data
<1>2. mode \in {"ReadMem", "WriteMem"}
  BY <1>1, WordsAssumption DEF NoDevice, OnTheBus, Modes
<1>3. address \in Address /\ dev' = AfterCycle(dev, mode, address, data)
  BY <1>1
<1>4. CardReady(dev)
  BY DEF CardInv
<1> HIDE DEF mode, address, data
<1>5. CardStep(dev, AfterCycle(dev, mode, address, data), mode, address, data)
  BY <1>2, <1>3, <1>4, CardOfCycle
<1>6. address \in Nat
  BY <1>3, Addresses
<1> QED
  BY <1>1, <1>3, <1>5, <1>6 DEF mode, address, data

LEMMA CardInvNext ==
  NoDevice /\ CardInv /\ Present(dev) /\ [HistoryNext]_vars => CardInv'
<1> SUFFICES ASSUME NoDevice, CardInv, Present(dev), [HistoryNext]_vars
             PROVE  CardInv'
  OBVIOUS
<1>1. ResetInv'
  BY ResetInvNext DEF CardInv
<1>2. CASE UNCHANGED vars
  <2>1. dev' = dev /\ log' = log
    BY <1>2 DEF vars
  <2> QED
    BY <1>1, <2>1 DEF CardInv
<1>3. ASSUME NEW x \in Words, Logged(x[1], x[2], x[3])
      PROVE  CardInv'
  <2>1. PICK e : /\ Extended(log', log, e) /\ e.address \in Nat
                 /\ CardStep(dev, dev', e.mode, e.address, e.data)
    BY <1>3, CardCycle
  <2>2. /\ CardReady(dev)
        /\ CardRegisters(dev, dev', e.mode, e.address, e.data)
        /\ CardWindow(dev, dev', e.mode, e.address, e.data)
    BY <2>1 DEF CardInv, CardStep
  <2>3. CardReady(dev')
    <3> DEFINE address == e.address
    <3>1. address \in Nat /\ CardStep(dev, dev', e.mode, address, e.data)
      BY <2>1
    <3> HIDE DEF address
    <3> QED
      BY <2>2, <3>1, CardStaysReady
  <2>4. dev'.videx_vterm_mem_selected => WindowOpen(log')
    BY <2>1, <2>2, WindowExtended DEF CardInv
  <2>5. BankOfLast(dev'.videx_banknum, log')
    BY <2>1, <2>2, LastBankExtended DEF CardInv
  <2>6. \A r \in 12 .. 15 : RegisterHolds(dev', log', r)
    BY <2>1, <2>2, RegisterExtended DEF CardInv
  <2> QED
    BY <1>1, <2>3, <2>4, <2>5, <2>6 DEF CardInv
<1> QED
  BY <1>2, <1>3 DEF HistoryNext

LEMMA CardCell ==
  ASSUME NEW bank \in 0 .. 3, NEW address \in Nat,
         NEW v, v = (bank * 512) + (address % 512)
  PROVE  address % 512 = v % 512 /\ bank = v \div 512
<1>1. address % 512 \in 0 .. 511
  OBVIOUS
<1>2. \A k \in 0 .. 511 : /\ ((bank * 512) + k) % 512 = k
                          /\ ((bank * 512) + k) \div 512 = bank
  OBVIOUS
<1> QED
  BY <1>1, <1>2

\* The registers of the CRTC hold what was written to them.
LEMMA LastRegisterWrite ==
  ASSUME CardInv, NEW r \in 12 .. 15
  PROVE  dev.videx_crtc_regs[r] =
           IF RegisterWrites(log, r) = {} THEN CrtcDefaults[r + 1]
           ELSE log[CHOOSE i \in RegisterWrites(log, r) :
                      \A j \in RegisterWrites(log, r) : j <= i].data
<1> DEFINE V == RegisterWrites(log, r)
           last == CHOOSE i \in V : \A j \in V : j <= i
<1>1. RegisterHolds(dev, log, r)
  BY DEF CardInv
<1>2. CASE V = {}
  BY <1>1, <1>2 DEF RegisterHolds
<1>3. CASE V # {}
  <2>1. PICK i \in V : /\ \A j \in V : j <= i
                       /\ dev.videx_crtc_regs[r] = log[i].data
    BY <1>1, <1>3 DEF RegisterHolds
  <2>2. last \in V /\ \A j \in V : j <= last
    BY <2>1
  <2>3. V \subseteq Int
    <3>1. LogOK(log)
      BY DEF CardInv, ResetInv, HistoryInv
    <3>2. DOMAIN log = 1 .. Len(log) /\ Len(log) \in Nat
      BY <3>1, LastResetOK
    <3> QED
      BY <3>2 DEF RegisterWrites, CardWrites, Accesses
  <2> HIDE DEF V, last
  <2>4. last = i
    BY <2>1, <2>2, <2>3
  <2> QED
    BY <1>3, <2>1, <2>4 DEF V, last
<1> QED
  BY <1>2, <1>3

\* The registers of the CRTC hold what was written to them.
LEMMA CrtcKnown == CardInv => CrtcHolds
<1> SUFFICES ASSUME CardInv
             PROVE  CrtcHolds
  OBVIOUS
<1>1. CardAccesses = Accesses(log)
  BY SMTT(30) DEF CardAccesses, Accesses
<1>2. {i \in CardAccesses : log[i].mode = "WriteMem"} = CardWrites(log)
  BY <1>1, SMTT(30) DEF CardWrites
<1> SUFFICES ASSUME NEW r \in 12 .. 15
             PROVE  LET writes   == {i \in CardAccesses : log[i].mode = "WriteMem"}
                        index(i) ==
                          \E j \in writes :
                            /\ j < i /\ log[j].address % 2 = 0 /\ log[j].data = r
                            /\ \A m \in writes \cap (j + 1 .. i) : log[m].address % 2 = 1
                        values   == {i \in writes : log[i].address % 2 = 1 /\ index(i)}
                    IN  dev.videx_crtc_regs[r] =
                          IF values = {} THEN CrtcDefaults[r + 1]
                          ELSE log[CHOOSE i \in values : \A j \in values : j <= i].data
  BY ZenonT(60) DEF CrtcHolds
<1> DEFINE writes == {i \in CardAccesses : log[i].mode = "WriteMem"}
           index(i) ==
             \E j \in writes : /\ j < i /\ log[j].address % 2 = 0 /\ log[j].data = r
                               /\ \A m \in writes \cap (j + 1 .. i) : log[m].address % 2 = 1
           values == {i \in writes : log[i].address % 2 = 1 /\ index(i)}
<1> SUFFICES dev.videx_crtc_regs[r] =
               IF values = {} THEN CrtcDefaults[r + 1]
               ELSE log[CHOOSE i \in values : \A j \in values : j <= i].data
  BY SMTT(30)
<1>3. values = RegisterWrites(log, r)
  <2>1. writes = CardWrites(log)
    BY <1>2, SMTT(30)
  <2> HIDE DEF writes
  <2> QED
    BY <2>1, SMTT(30) DEF RegisterWrites, Indexed
<1> HIDE DEF values
<1> QED
  BY <1>3, LastRegisterWrite, ZenonT(60)

\* A write to the card's memory: one step.
CardWriteStep ==
  \A v \in VideoRam :
    dev'.videx_vram[v] # dev.videx_vram[v] =>
      LET n == Len(log')
      IN  /\ log'[n].mode = "WriteMem" /\ log'[n].address \in 52224 .. 52735
          /\ log'[n].address % 512 = v % 512
          /\ \E i \in DOMAIN log :
               /\ log[i].address \in 49920 .. 50175
               /\ \A j \in i + 1 .. Len(log) : log[j].address \notin 52736 .. 53247
          /\ \A i \in CardAccesses :
               (\A j \in CardAccesses : j <= i) => Bank(log[i].address) = v \div 512

LEMMA CardWriteExact == NoDevice /\ CardInv /\ Present(dev) /\ HistoryNext => CardWriteStep
<1> SUFFICES ASSUME NoDevice, CardInv, Present(dev), HistoryNext,
                    NEW v \in VideoRam, dev'.videx_vram[v] # dev.videx_vram[v]
             PROVE  LET n == Len(log')
                    IN  /\ log'[n].mode = "WriteMem" /\ log'[n].address \in 52224 .. 52735
                        /\ log'[n].address % 512 = v % 512
                        /\ \E i \in DOMAIN log :
                             /\ log[i].address \in 49920 .. 50175
                             /\ \A j \in i + 1 .. Len(log) :
                                  log[j].address \notin 52736 .. 53247
                        /\ \A i \in CardAccesses :
                             (\A j \in CardAccesses : j <= i)
                               => Bank(log[i].address) = v \div 512
  BY SMTT(30) DEF CardWriteStep
<1>1. PICK e : /\ Extended(log', log, e) /\ e.address \in Nat
               /\ CardStep(dev, dev', e.mode, e.address, e.data)
  BY CardCycle DEF HistoryNext
<1>2. log'[Len(log')] = e /\ DOMAIN log = 1 .. Len(log)
  BY <1>1 DEF Extended
<1> DEFINE address == e.address
           bank == dev.videx_banknum
<1>3. /\ e.mode = "WriteMem" /\ address \in 52224 .. 52735
      /\ dev.videx_vterm_mem_selected /\ v = Window(dev, address)
  <2>1. DOMAIN dev.videx_vram = VideoRam
    BY DEF CardInv, CardReady
  <2>2. CardMemory(dev, dev', e.mode, address, e.data)
    BY <1>1 DEF CardStep
  <2> HIDE DEF address
  <2> QED
    BY <2>1, <2>2 DEF CardMemory
<1>4. address % 512 = v % 512 /\ bank = v \div 512
  <2>1. bank \in 0 .. 3 /\ address \in Nat /\ v = (bank * 512) + (address % 512)
    BY <1>1, <1>3 DEF CardInv, CardReady, Window
  <2> HIDE DEF bank, address
  <2> QED
    BY <2>1, CardCell
<1>5. \E i \in DOMAIN log :
        /\ log[i].address \in 49920 .. 50175
        /\ \A j \in i + 1 .. Len(log) : log[j].address \notin 52736 .. 53247
  <2>1. WindowOpen(log)
    BY <1>3 DEF CardInv
  <2>2. PICK i \in DOMAIN log : /\ CardPage(log[i].address)
                                /\ \A j \in i + 1 .. Len(log) : ~ TakesAway(log[j].address)
    BY <1>2, <2>1 DEF WindowOpen
  <2>3. log[i].address \in 49920 .. 50175
    BY <2>2 DEF CardPage
  <2>4. ASSUME NEW j \in i + 1 .. Len(log)
        PROVE  log[j].address \notin 52736 .. 53247
    <3>1. ~ TakesAway(log[j].address)
      BY <2>2
    <3> QED
      BY <3>1 DEF TakesAway
  <2> QED
    BY <2>3, <2>4
<1>6. \A i \in CardAccesses :
        (\A j \in CardAccesses : j <= i) => Bank(log[i].address) = v \div 512
  <2>1. BankOfLast(bank, log)
    BY DEF CardInv
  <2>2. CardAccesses = Accesses(log)
    BY DEF CardAccesses, Accesses
  <2> HIDE DEF bank
  <2> QED
    BY <1>4, <2>1, <2>2 DEF BankOfLast
<1> QED
  BY <1>2, <1>3, <1>4, <1>5, <1>6, SMTT(30)

\* With the card in an Apple II and no device accesses, a write reaches the card's
\* memory only through its window and in the bank selected last, and its registers hold
\* what was written to them (videx_vterm.c), for every such program.
THEOREM VidexAlwaysWindowed ==
  NoDevice => (HistorySpec /\ []Present(dev) => VidexWindow)
<1> SUFFICES ASSUME NoDevice
             PROVE  HistorySpec /\ []Present(dev) => VidexWindow
  OBVIOUS
<1>1. CardInv /\ Present(dev) /\ HistoryNext => CardWriteStep
  BY CardWriteExact
<1>2. CardInv /\ Present(dev) /\ [HistoryNext]_vars => CardInv'
  BY CardInvNext
<1>3. HistorySpec /\ []Present(dev) => []CrtcHolds /\ [][CardWriteStep]_vars
  BY <1>1, <1>2, CardInvInit, CrtcKnown, PTL DEF HistorySpec
<1> QED
  BY <1>3 DEF VidexWindow, CardWriteStep
=============================================================================
