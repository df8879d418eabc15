------------------------- MODULE MemoryManagerProofs -------------------------
(***************************************************************************)
(* Theorems about MemoryManager, for any number of entries.                *)
(***************************************************************************)
EXTENDS MemoryManager, SequenceTheorems, TLAPS

\* Where the file and self.memory are at each step of the process.
StepState ==
  /\ step \in {"ready", "save", "clear", "reload"} <=> memory # NoMemory
  /\ step \in {"save", "clear", "create"} => disk = Torn
  /\ step = "reload" => disk = default_memory
  /\ step # "down" => disk # Absent
  /\ step \in {"create", "clear", "reload"} => \A k \in Kinds : acked[k] = {}

\* All entries there are have been stored, and their lists are in order.
InOrder(m) ==
  m \in Memories =>
    \A k \in Kinds : Increasing(m[k]) /\ \A j \in DOMAIN m[k] : m[k][j] < next

\* A save that fails leaves its entry the last one of the list.
Lists == InOrder(disk) /\ InOrder(memory) /\ \A e \in cleared : e < next

IInv ==
  /\ TypeOK /\ StepState /\ Lists
  /\ AckedIsKept /\ ClearedStaysCleared

LEMMA StoredInMemory ==
  ASSUME NEW m \in Memories, NEW k \in Kinds
  PROVE  /\ m[k] \in Seq(Entries)
         /\ Stored(m, k) = {m[k][j] : j \in DOMAIN m[k]}
<1>1. m \notin {Absent, Torn, NoMemory}
  BY MemoryAssumption
<1> QED
  BY <1>1 DEF Stored, Range, Memories

LEMMA StoredNowhere ==
  ASSUME NEW m \in {Absent, Torn, NoMemory}, NEW k PROVE Stored(m, k) = {}
BY DEF Stored

LEMMA DefaultMemory ==
  /\ default_memory \in Memories
  /\ \A k \in Kinds : Stored(default_memory, k) = {}
  /\ InOrder(default_memory)
<1>1. default_memory \in Memories
  BY DEF default_memory, Memories
<1>2. \A k \in Kinds : default_memory[k] = <<>> /\ DOMAIN default_memory[k] = {}
  BY DEF default_memory
<1>3. \A k \in Kinds : Stored(default_memory, k) = {}
  BY <1>1, <1>2, StoredInMemory
<1>4. InOrder(default_memory)
  BY <1>2 DEF InOrder, Increasing
<1> QED
  BY <1>1, <1>3, <1>4

LEMMA AppendEntry ==
  ASSUME NEW s \in Seq(Entries), NEW e \in Entries
  PROVE  /\ Append(s, e) \in Seq(Entries)
         /\ DOMAIN Append(s, e) = 1..(Len(s) + 1)
         /\ \A j \in 1..Len(s) : Append(s, e)[j] = s[j]
         /\ Append(s, e)[Len(s) + 1] = e
         /\ DOMAIN s = 1..Len(s) /\ Len(s) \in Nat
OBVIOUS

LEMMA InitIInv == Init => IInv
<1>1. SUFFICES ASSUME Init PROVE IInv
  OBVIOUS
<1> USE MemoryAssumption DEF Init
<1>2. TypeOK
  BY <1>1 DEF TypeOK, Entries, Steps
<1>3. StepState
  BY <1>1 DEF StepState
<1>4. Lists
  BY <1>1 DEF Lists, InOrder
<1>5. AckedIsKept /\ ClearedStaysCleared
  BY <1>1 DEF AckedIsKept, ClearedStaysCleared
<1> QED
  BY <1>2, <1>3, <1>4, <1>5 DEF IInv

LEMMA TypeStep == IInv /\ [Next]_vars => TypeOK'
<1>1. SUFFICES ASSUME IInv, [Next]_vars PROVE TypeOK'
  OBVIOUS
<1> USE MemoryAssumption, DefaultMemory DEF TypeOK, Goto, Truncate, Steps, Entries
<1>2. TypeOK /\ StepState
  BY <1>1 DEF IInv
<1>3. CASE Construct \/ DumpDefault
  BY <1>2, <1>3 DEF Construct, DumpDefault
<1>4. CASE Load
  BY <1>2, <1>4 DEF Load, StepState
<1>5. ASSUME NEW k \in Kinds, Store(k) PROVE TypeOK'
  <2>1. memory \in Memories /\ memory[k] \in Seq(Entries)
    BY <1>2, <1>5 DEF Store, StepState, Memories
  <2>2. memory' \in Memories
    BY <1>5, <2>1, AppendEntry DEF Store, Memories
  <2> QED
    BY <1>2, <1>5, <2>2 DEF Store
<1>6. CASE Dump
  <2>1. acked' \in [Kinds -> SUBSET Entries]
    <3>1. next - 1 \in Entries \/ next = 1
      BY <1>2
    <3>2. memory \in Memories
      BY <1>2, <1>6 DEF Dump, StepState
    <3>3. \A k \in Kinds : {next - 1} \cap Range(memory[k]) \subseteq Entries
      BY <3>2, StoredInMemory DEF Range, Memories
    <3> QED
      BY <1>2, <1>6, <3>3 DEF Dump
  <2> QED
    BY <1>2, <1>6, <2>1 DEF Dump, StepState
<1>7. CASE Clear \/ DumpCleared
  BY <1>2, <1>7 DEF Clear, DumpCleared
<1>8. CASE Reload
  BY <1>2, <1>8 DEF Reload, StepState
<1>9. CASE Fail \/ Crash
  BY <1>2, <1>9 DEF Fail, Crash
<1>10. CASE UNCHANGED vars
  BY <1>2, <1>10 DEF vars
<1> QED
  BY <1>1, <1>3, <1>4, <1>5, <1>6, <1>7, <1>8, <1>9, <1>10 DEF Next

LEMMA StateStep == IInv /\ [Next]_vars => StepState'
<1>1. SUFFICES ASSUME IInv, [Next]_vars PROVE StepState'
  OBVIOUS
<1> USE MemoryAssumption, DefaultMemory DEF TypeOK, StepState, Goto, Truncate, Steps
<1>2. TypeOK /\ StepState
  BY <1>1 DEF IInv
<1>3. CASE Construct \/ DumpDefault
  <2>1. disk = Absent => \A k \in Kinds : acked[k] = {}
    BY <1>1, StoredNowhere DEF IInv, AckedIsKept
  <2> QED
    BY <1>2, <1>3, <2>1 DEF Construct, DumpDefault
<1>4. CASE Load
  BY <1>2, <1>4 DEF Load
<1>5. ASSUME NEW k \in Kinds, Store(k) PROVE StepState'
  <2>1. memory \in Memories /\ memory[k] \in Seq(Entries)
    BY <1>2, <1>5 DEF Store, Memories
  <2>2. memory' \in Memories
    BY <1>5, <2>1, AppendEntry DEF Store, Memories
  <2> QED
    BY <1>2, <1>5, <2>2 DEF Store
<1>6. CASE Dump
  BY <1>2, <1>6 DEF Dump
<1>7. CASE Clear \/ DumpCleared
  BY <1>2, <1>7 DEF Clear, DumpCleared
<1>8. CASE Reload
  BY <1>2, <1>8 DEF Reload
<1>9. CASE Fail \/ Crash
  BY <1>2, <1>9 DEF Fail, Crash
<1>10. CASE UNCHANGED vars
  BY <1>2, <1>10 DEF vars
<1> QED
  BY <1>1, <1>3, <1>4, <1>5, <1>6, <1>7, <1>8, <1>9, <1>10 DEF Next

\* A new number at the end of a list.
LEMMA AppendInOrder ==
  ASSUME NEW s \in Seq(Entries), NEW e \in Entries, Increasing(s),
         \A j \in DOMAIN s : s[j] < e
  PROVE  /\ Increasing(Append(s, e))
         /\ \A j \in DOMAIN Append(s, e) : Append(s, e)[j] < e + 1
         /\ {Append(s, e)[j] : j \in DOMAIN Append(s, e)} = {s[j] : j \in DOMAIN s} \cup {e}
<1> DEFINE t == Append(s, e)
           n == Len(s)
<1>1. /\ n \in Nat /\ DOMAIN s = 1..n /\ DOMAIN t = 1..(n + 1)
      /\ t[n + 1] = e /\ \A j \in 1..n : t[j] = s[j] /\ s[j] \in Entries
  BY AppendEntry
<1>2. e \in Nat /\ \A j \in 1..n : s[j] \in Nat
  BY <1>1, MemoryAssumption DEF Entries
<1> HIDE DEF t, n
<1>3. Increasing(t)
  <2>1. SUFFICES ASSUME NEW x \in 1..(n + 1), NEW y \in 1..(n + 1), x < y PROVE t[x] < t[y]
    BY <1>1 DEF Increasing
  <2>2. x \in 1..n /\ t[x] = s[x]
    BY <1>1, <2>1
  <2>3. CASE y = n + 1
    BY <1>1, <2>2, <2>3
  <2>4. CASE y \in 1..n
    BY <1>1, <2>1, <2>2, <2>4 DEF Increasing
  <2> QED
    BY <1>1, <2>3, <2>4
<1>4. \A j \in DOMAIN t : t[j] < e + 1
  <2>1. SUFFICES ASSUME NEW j \in 1..(n + 1) PROVE t[j] < e + 1
    BY <1>1
  <2>2. CASE j \in 1..n
    BY <1>1, <1>2, <2>2
  <2>3. CASE j = n + 1
    BY <1>1, <1>2, <2>3
  <2> QED
    BY <1>1, <2>2, <2>3
<1>5. {t[j] : j \in DOMAIN t} = {s[j] : j \in DOMAIN s} \cup {e}
  <2>1. 1..(n + 1) = 1..n \cup {n + 1}
    BY <1>1
  <2> QED
    BY <1>1, <2>1
<1> QED
  BY <1>3, <1>4, <1>5 DEF t

\* What a Store() leaves in self.memory.
LEMMA StoreMemory ==
  ASSUME IInv, NEW k \in Kinds, Store(k)
  PROVE  /\ memory \in Memories /\ memory' \in Memories
         /\ next \in Entries /\ next' = next + 1
         /\ InOrder(memory)'
         /\ \A l \in Kinds : Stored(memory', l) =
               Stored(memory, l) \cup (IF l = k THEN {next} ELSE {})
<1>1. memory \in Memories /\ memory[k] \in Seq(Entries)
  BY MemoryAssumption DEF IInv, TypeOK, StepState, Store, Goto, Memories
<1>2. memory' \in Memories /\ memory' = [memory EXCEPT ![k] = Append(@, next)]
  BY <1>1, AppendEntry DEF Store, Memories
<1>3. next \in Entries /\ next' = next + 1
  BY DEF Store
<1>4. InOrder(memory)
  BY DEF IInv, Lists
<1>5. ASSUME NEW l \in Kinds
      PROVE  /\ Increasing(memory'[l])
             /\ \A j \in DOMAIN memory'[l] : memory'[l][j] < next'
             /\ Stored(memory', l) = Stored(memory, l) \cup (IF l = k THEN {next} ELSE {})
  <2>1. /\ Stored(memory, l) = {memory[l][j] : j \in DOMAIN memory[l]}
        /\ Stored(memory', l) = {memory'[l][j] : j \in DOMAIN memory'[l]}
    BY <1>1, <1>2, StoredInMemory
  <2>2. CASE l = k
    <3>1. memory'[l] = Append(memory[l], next)
      BY <1>1, <1>2, <2>2 DEF Memories
    <3>2. memory[l] \in Seq(Entries) /\ Increasing(memory[l])
          /\ \A j \in DOMAIN memory[l] : memory[l][j] < next
      BY <1>1, <1>4, <2>2 DEF InOrder
    <3> QED
      BY <1>3, <2>1, <2>2, <3>1, <3>2, AppendInOrder
  <2>3. CASE l # k
    <3>1. memory'[l] = memory[l]
      BY <1>1, <1>2, <2>3 DEF Memories
    <3>2. \A j \in DOMAIN memory[l] : memory[l][j] < next /\ memory[l][j] \in Entries
      BY <1>1, <1>4 DEF InOrder, Memories
    <3> QED
      BY <1>1, <1>3, <1>4, <2>1, <2>3, <3>1, <3>2 DEF InOrder, Entries
  <2> QED
    BY <2>2, <2>3
<1> QED
  BY <1>1, <1>2, <1>3, <1>5 DEF InOrder

LEMMA ListsStep == IInv /\ [Next]_vars => Lists'
<1>1. SUFFICES ASSUME IInv, [Next]_vars PROVE Lists'
  OBVIOUS
<1> USE MemoryAssumption DEF Goto, Truncate
<1>2. TypeOK /\ StepState /\ Lists
  BY <1>1 DEF IInv
<1>3. InOrder(default_memory) /\ InOrder(Torn) /\ InOrder(Absent) /\ InOrder(NoMemory)
  BY DefaultMemory DEF InOrder
<1>4. ASSUME next' = next,
             disk' \in {disk, memory, Torn, default_memory},
             memory' \in {memory, disk, NoMemory},
             cleared' = cleared \/ cleared' = 1..(next - 1)
      PROVE  Lists'
  <2>1. InOrder(disk') /\ InOrder(memory')
    BY <1>2, <1>3, <1>4 DEF Lists
  <2>2. \A e \in cleared' : e < next
    BY <1>2, <1>4 DEF Lists, TypeOK
  <2> QED
    BY <1>4, <2>1, <2>2 DEF Lists, InOrder
<1>5. ASSUME NEW k \in Kinds, Store(k) PROVE Lists'
  <2>1. next \in Entries /\ next' = next + 1 /\ InOrder(memory)'
    BY <1>1, <1>5, StoreMemory
  <2>2. InOrder(disk)'
    <3>1. disk' \in {disk, Torn}
      BY <1>5 DEF Store
    <3>2. InOrder(disk')
      BY <1>2, <1>3, <3>1 DEF Lists
    <3> QED
      BY <1>2, <2>1, <3>2 DEF InOrder, Memories, Entries, TypeOK
  <2>3. \A e \in cleared' : e < next'
    BY <1>2, <1>5, <2>1 DEF Lists, TypeOK, Store, Entries
  <2> QED
    BY <2>1, <2>2, <2>3 DEF Lists
<1>6. CASE ~\E k \in Kinds : Store(k)
  BY <1>1, <1>2, <1>4, <1>6 DEF Next, vars, Construct, DumpDefault, Load, Dump, Clear,
     DumpCleared, Reload, Fail, Crash, StepState
<1> QED
  BY <1>5, <1>6

LEMMA AckedStep == IInv /\ [Next]_vars => AckedIsKept'
<1>1. SUFFICES ASSUME IInv, [Next]_vars, NEW k \in Kinds
               PROVE  /\ disk' # Torn => acked'[k] \subseteq Stored(disk', k)
                      /\ step' \in {"ready", "save"} => acked'[k] \subseteq Stored(memory', k)
  BY DEF AckedIsKept, Stored
<1> USE MemoryAssumption DEF Goto, Truncate
<1>2. /\ TypeOK /\ StepState
      /\ disk # Torn => acked[k] \subseteq Stored(disk, k)
      /\ step \in {"ready", "save"} => acked[k] \subseteq Stored(memory, k)
  BY <1>1 DEF IInv, AckedIsKept
<1>3. CASE Construct \/ DumpDefault
  BY <1>2, <1>3 DEF Construct, DumpDefault, StepState
<1>4. CASE Load
  BY <1>2, <1>4 DEF Load
<1>5. ASSUME NEW l \in Kinds, Store(l)
      PROVE  /\ disk' # Torn => acked'[k] \subseteq Stored(disk', k)
             /\ step' \in {"ready", "save"} => acked'[k] \subseteq Stored(memory', k)
  <2>1. Stored(memory, k) \subseteq Stored(memory', k)
    BY <1>1, <1>5, StoreMemory
  <2> QED
    BY <1>2, <1>5, <2>1 DEF Store
<1>6. CASE Dump
  <2>1. acked'[k] = acked[k] \cup ({next - 1} \cap Range(memory[k]))
    BY <1>6 DEF Dump
  <2>2. Range(memory[k]) = Stored(memory, k)
    BY <1>2, <1>6, MemoryAssumption DEF Dump, StepState, TypeOK, Stored
  <2> QED
    BY <1>2, <1>6, <2>1, <2>2 DEF Dump
<1>7. CASE Clear \/ DumpCleared \/ Reload
  BY <1>2, <1>7 DEF Clear, DumpCleared, Reload, StepState
<1>8. CASE Fail \/ Crash
  BY <1>2, <1>8 DEF Fail, Crash, StepState
<1>9. CASE UNCHANGED vars
  BY <1>2, <1>9 DEF vars
<1> QED
  BY <1>1, <1>3, <1>4, <1>5, <1>6, <1>7, <1>8, <1>9 DEF Next

LEMMA ClearedStep == IInv /\ [Next]_vars => ClearedStaysCleared'
<1>1. SUFFICES ASSUME IInv, [Next]_vars, NEW k \in Kinds
               PROVE  cleared' \cap (Stored(disk', k) \cup Stored(memory', k)) = {}
  BY DEF ClearedStaysCleared, Stored
<1> USE MemoryAssumption DEF Goto, Truncate
<1>2. /\ TypeOK /\ StepState /\ Lists
      /\ cleared \cap (Stored(disk, k) \cup Stored(memory, k)) = {}
  BY <1>1 DEF IInv, ClearedStaysCleared
<1>3. Stored(default_memory, k) = {} /\ Stored(Torn, k) = {} /\ Stored(NoMemory, k) = {}
  BY DefaultMemory, StoredNowhere
<1>4. ASSUME cleared' = cleared, disk' \in {disk, memory, Torn, default_memory},
             memory' \in {memory, disk, NoMemory}
      PROVE  cleared' \cap (Stored(disk', k) \cup Stored(memory', k)) = {}
  BY <1>2, <1>3, <1>4
<1>5. ASSUME NEW l \in Kinds, Store(l)
      PROVE  cleared' \cap (Stored(disk', k) \cup Stored(memory', k)) = {}
  <2>1. next \notin cleared
    BY <1>2 DEF Lists, TypeOK
  <2>2. Stored(memory', k) \subseteq Stored(memory, k) \cup {next}
    BY <1>1, <1>5, StoreMemory
  <2>3. cleared' = cleared /\ disk' \in {disk, Torn}
    BY <1>5 DEF Store
  <2> QED
    BY <1>2, <1>3, <2>1, <2>2, <2>3
<1>6. CASE Reload
  BY <1>3, <1>2, <1>6 DEF Reload, StepState
<1>7. CASE ~Reload /\ ~\E l \in Kinds : Store(l)
  BY <1>1, <1>4, <1>7 DEF Next, vars, Construct, DumpDefault, Load, Dump, Clear,
     DumpCleared, Fail, Crash
<1> QED
  BY <1>5, <1>6, <1>7

LEMMA Invariant == Spec => []IInv
<1>1. IInv /\ [Next]_vars => IInv'
  BY TypeStep, StateStep, ListsStep, AckedStep, ClearedStep DEF IInv
<1> QED
  BY <1>1, InitIInv, PTL DEF Spec

\* Every variable keeps its type: the file holds a memory, is torn or absent, and
\* self.memory is a memory or none, at every step of a save and after every crash.
THEOREM TypeCorrect == Spec => []TypeOK
BY Invariant, PTL DEF IInv

\* No crash and no failed write loses an entry whose store returned from a file
\* that can be read, nor from the memory of a process that lives (save_memory(),
\* log_voice_command(), store_conversation()).
THEOREM AckedEntriesAreKept == Spec => []AckedIsKept
BY Invariant, PTL DEF IInv

\* What clear_memory() has cleared comes back neither from the file nor from
\* self.memory.
THEOREM ClearedIsGone == Spec => []ClearedStaysCleared
BY Invariant, PTL DEF IInv

\* get_recent_conversation() returns the last entries, and the lists are in the
\* order of the calls whatever failed in between.
THEOREM RecentOnes == Spec => []RecentIsRecent
<1>1. IInv => RecentIsRecent
  <2> SUFFICES ASSUME IInv PROVE RecentIsRecent
    OBVIOUS
  <2> USE MemoryAssumption
  <2>1. TypeOK /\ StepState /\ Lists /\ AckedIsKept
    BY DEF IInv
  <2>2. \A m \in {disk, memory} \ {Absent, Torn, NoMemory} : \A k \in Kinds : Increasing(m[k])
    BY <2>1 DEF Lists, InOrder, TypeOK
  <2>3. ASSUME step = "ready", NEW limit \in 0..(MaxEntries + 1),
               NEW e \in acked["conversations"] \ Range(RecentConversation(limit))
        PROVE  /\ Len(RecentConversation(limit)) = limit
               /\ \A x \in 1..limit : RecentConversation(limit)[x] > e
    <3> DEFINE all == memory["conversations"]
               n == Len(all)
               first == IF limit = 0 \/ limit > n THEN 1 ELSE n - limit + 1
               recent == SubSeq(all, first, n)
    <3>1. memory \in Memories /\ all \in Seq(Entries) /\ n \in Nat /\ DOMAIN all = 1..n
      BY <2>1, <2>3 DEF StepState, TypeOK, Memories, Kinds
    <3>2. Increasing(all) /\ \A x \in 1..n : all[x] \in Entries
      BY <2>1, <3>1 DEF Lists, InOrder, Kinds
    <3>3. e \in {all[x] : x \in 1..n}
      BY <2>1, <2>3, <3>1, StoredInMemory DEF AckedIsKept, Kinds
    <3>4. recent = RecentConversation(limit)
      BY DEF RecentConversation
    <3>5. /\ Len(recent) = n - first + 1
          /\ DOMAIN recent = 1..(n - first + 1)
          /\ \A x \in 1..(n - first + 1) : recent[x] = all[first + x - 1]
      <4>1. first \in Int /\ n \in Int /\ first \in 1..(n + 1)
        BY <2>3, <3>1
      <4>2. \A x \in first..n : all[x] \in Entries
        BY <3>2, <4>1
      <4> HIDE DEF all, n, first
      <4>3. /\ SubSeq(all, first, n) \in Seq(Entries)
            /\ Len(SubSeq(all, first, n)) = IF first <= n THEN n - first + 1 ELSE 0
            /\ \A x \in 1..(n - first + 1) : SubSeq(all, first, n)[x] = all[first + x - 1]
        BY <4>1, <4>2, SubSeqProperties
      <4> QED
        BY <4>1, <4>3
    <3> HIDE DEF all, n, first, recent
    <3>6. PICK p \in 1..n : all[p] = e
      BY <3>3
    <3>7. first \in 1..(n + 1) /\ (first # 1 => n - first + 1 = limit)
      BY <2>3, <3>1 DEF first
    <3>8. p < first
      <4>1. SUFFICES ASSUME p >= first PROVE FALSE
        BY <3>1, <3>6, <3>7
      <4>2. p - first + 1 \in 1..(n - first + 1) /\ first + (p - first + 1) - 1 = p
        BY <3>1, <3>6, <3>7, <4>1
      <4>3. recent[p - first + 1] = e
        BY <3>5, <3>6, <4>2
      <4> QED
        BY <2>3, <3>4, <3>5, <4>2, <4>3 DEF Range
    <3>9. n - first + 1 = limit
      BY <3>6, <3>7, <3>8
    <3>10. ASSUME NEW x \in 1..limit PROVE recent[x] > e
      <4>1. first + x - 1 \in 1..n /\ p < first + x - 1 /\ recent[x] = all[first + x - 1]
        BY <2>3, <3>1, <3>5, <3>6, <3>7, <3>8, <3>9, <3>10
      <4>2. PICK y \in 1..n : p < y /\ recent[x] = all[y]
        BY <4>1
      <4>3. all[p] < all[y] /\ all[p] \in Int /\ all[y] \in Int
        <5>1. p \in DOMAIN all /\ y \in DOMAIN all /\ p < y
          BY <3>1, <4>2
        <5>2. all[p] < all[y]
          BY <3>2, <5>1 DEF Increasing
        <5> QED
          BY <3>2, <5>2 DEF Entries
      <4> QED
        BY <3>6, <4>2, <4>3
    <3> QED
      BY <3>4, <3>5, <3>9, <3>10
  <2> QED
    BY <2>2, <2>3 DEF RecentIsRecent
<1> QED
  BY <1>1, Invariant, PTL

\* A file that a crash has torn stays torn, and no later start gets past it
\* (_load_memory() in __init__).
THEOREM TornForGood == Spec => TornIsFinal
<1> DEFINE Dead == disk = Torn /\ step \in {"down", "load"}
<1>1. disk = Torn /\ step = "down" => Dead
  OBVIOUS
<1>2. Dead /\ [Next]_vars => Dead'
  BY MemoryAssumption
     DEF Next, vars, Goto, Construct, DumpDefault, Load, Store, Dump, Clear, DumpCleared, Reload,
         Truncate, Fail, Crash
<1> QED
  BY <1>1, <1>2, PTL DEF Spec, TornIsFinal
=============================================================================
