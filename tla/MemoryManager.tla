---------------------------- MODULE MemoryManager ----------------------------
(***************************************************************************)
(* The class MemoryManager of memory/memory_manager.py: the assistant's    *)
(* memory, held in self.memory and written as a whole to one JSON file     *)
(* after every change.  A write is open(path, "w"), which truncates, then  *)
(* json.dump(); in between the file holds no readable JSON.  The process   *)
(* can be killed at any point, and every open, read and write can raise    *)
(* OSError, which the caller of the method survives.                       *)
(*                                                                         *)
(* A memory is its two lists, "conversations" and "voice_commands"; a list *)
(* log_voice_command() has yet to create is the empty one, and the two     *)
(* dictionaries no method ever touches are left out.  The entries of one   *)
(* run of the model are numbered in the order of the calls.                *)
(***************************************************************************)
EXTENDS Integers, Sequences, Functions

CONSTANTS MaxEntries,  \* bound: the number of entries stored
          Absent,      \* no file
          Torn,        \* a file that json.load() rejects
          NoMemory     \* no MemoryManager exists

Entries  == 1..MaxEntries
Kinds    == {"conversations", "voice_commands"}
Memories == [Kinds -> Seq(Entries)]
default_memory == [k \in Kinds |-> <<>>]

ASSUME MemoryAssumption ==
  /\ MaxEntries \in Nat
  /\ Absent \notin Memories /\ Torn \notin Memories /\ NoMemory \notin Memories
  /\ Absent # Torn

VARIABLES
  disk,     \* the file at db_path
  memory,   \* self.memory
  step,     \* where the process is
  next,     \* the number of the next entry
  acked,    \* history: entries, by kind, whose store returned, and which
            \* nobody has asked to clear since
  cleared   \* history: the entries a clear_memory() that returned was to clear

vars == <<disk, memory, step, next, acked, cleared>>

Steps == {"down", "load", "create", "ready", "save", "clear", "reload"}

TypeOK ==
  /\ disk \in Memories \cup {Absent, Torn}
  /\ memory \in Memories \cup {NoMemory}
  /\ step \in Steps
  /\ next \in 1..(MaxEntries + 1)
  /\ acked \in [Kinds -> SUBSET Entries]
  /\ cleared \subseteq Entries

Init ==
  /\ disk = Absent
  /\ memory = NoMemory
  /\ step = "down"
  /\ next = 1
  /\ acked = [k \in Kinds |-> {}]
  /\ cleared = {}

-----------------------------------------------------------------------------
Goto(from, to) == step = from /\ step' = to

\* open(self.db_path, "w")
Truncate == disk' = Torn

\* Variant of Construct: the file is created whether it exists or not.
ConstructAnew ==
  /\ Goto("down", "create")
  /\ Truncate
  /\ UNCHANGED <<memory, next, acked, cleared>>

\* __init__: a file that is missing is created first.
Construct ==
  /\ \/ disk # Absent /\ Goto("down", "load") /\ UNCHANGED disk
     \/ disk = Absent /\ Goto("down", "create") /\ Truncate
  /\ UNCHANGED <<memory, next, acked, cleared>>

\* _initialize_memory's json.dump(), in __init__.
DumpDefault ==
  /\ Goto("create", "load")
  /\ disk' = default_memory
  /\ UNCHANGED <<memory, next, acked, cleared>>

\* Variants of Load: a torn file counts as empty; it is not noticed.
LoadOrDefault ==
  /\ Goto("load", "ready")
  /\ memory' = IF disk = Torn THEN default_memory ELSE disk
  /\ UNCHANGED <<disk, next, acked, cleared>>

LoadUnchecked ==
  /\ Goto("load", "ready")
  /\ memory' = disk
  /\ UNCHANGED <<disk, next, acked, cleared>>

\* _load_memory in __init__; on a torn file json.load() raises and there is no
\* MemoryManager.
Load ==
  /\ IF disk = Torn
     THEN Goto("load", "down") /\ UNCHANGED memory
     ELSE Goto("load", "ready") /\ memory' = disk
  /\ UNCHANGED <<disk, next, acked, cleared>>

\* log_voice_command and store_conversation: self.memory has the new entry even
\* if save_memory() then raises at open().
Store(k) ==
  /\ next \in Entries
  /\ \/ Goto("ready", "save") /\ Truncate
     \/ Goto("ready", "ready") /\ UNCHANGED disk
  /\ memory' = [memory EXCEPT ![k] = Append(@, next)]
  /\ next' = next + 1
  /\ UNCHANGED <<acked, cleared>>

\* save_memory's json.dump(), and the return to the caller.
Dump ==
  /\ Goto("save", "ready")
  /\ disk' = memory
  /\ acked' = [k \in Kinds |-> acked[k] \cup ({next - 1} \cap Range(memory[k]))]
  /\ UNCHANGED <<memory, next, cleared>>

\* clear_memory up to the truncation of the file ...
Clear ==
  /\ Goto("ready", "clear")
  /\ Truncate
  /\ acked' = [k \in Kinds |-> {}]
  /\ UNCHANGED <<memory, next, cleared>>

\* ... its json.dump() ...
DumpCleared ==
  /\ Goto("clear", "reload")
  /\ disk' = default_memory
  /\ UNCHANGED <<memory, next, acked, cleared>>

\* Variant of Reload: clear_memory() leaves self.memory alone.
ReloadNothing ==
  /\ Goto("reload", "ready")
  /\ cleared' = 1..(next - 1)
  /\ UNCHANGED <<disk, memory, next, acked>>

\* ... and _load_memory, which alone empties self.memory.
Reload ==
  /\ Goto("reload", "ready")
  /\ memory' = disk
  /\ cleared' = 1..(next - 1)
  /\ UNCHANGED <<disk, next, acked>>

\* OSError where the file is open: __init__ fails, the other methods leave
\* self.memory as it was.
Fail ==
  /\ \/ \E s \in {"create", "load"} : Goto(s, "down")
     \/ \E s \in {"save", "clear", "reload"} : Goto(s, "ready")
  /\ UNCHANGED <<disk, memory, next, acked, cleared>>

\* The process is killed.
Crash ==
  /\ step # "down"
  /\ step' = "down"
  /\ memory' = NoMemory
  /\ UNCHANGED <<disk, next, acked, cleared>>

Next ==
  \/ Construct \/ DumpDefault \/ Load
  \/ \E k \in Kinds : Store(k)
  \/ Dump \/ Clear \/ DumpCleared \/ Reload \/ Fail \/ Crash

Spec == Init /\ [][Next]_vars

\* Variant of RecentConversation: [:limit] instead of [-limit:].
FirstConversation(limit) ==
  LET all  == memory["conversations"]
      last == IF limit > Len(all) THEN Len(all) ELSE limit
  IN  SubSeq(all, 1, last)

\* get_recent_conversation: Python's self.memory["conversations"][-limit:],
\* which for a limit of 0 is the whole list.
RecentConversation(limit) ==
  LET all   == memory["conversations"]
      first == IF limit = 0 \/ limit > Len(all) THEN 1 ELSE Len(all) - limit + 1
  IN  SubSeq(all, first, Len(all))

-----------------------------------------------------------------------------
(* Properties.                                                             *)

Stored(m, k) == IF m \in {Absent, Torn, NoMemory} THEN {} ELSE Range(m[k])

\* An entry whose store returned is, whatever failed since and until
\* clear_memory() is called, in every file that can be read, and as long as
\* the process lives in its memory too, so that the next save that works
\* repairs a file an earlier one left torn.
AckedIsKept ==
  \A k \in Kinds :
    /\ disk # Torn => acked[k] \subseteq Stored(disk, k)
    /\ step \in {"ready", "save"} => acked[k] \subseteq Stored(memory, k)

\* What a clear_memory() that returned has cleared never comes back, neither
\* from the file nor from a stale self.memory.
ClearedStaysCleared ==
  \A k \in Kinds : cleared \cap (Stored(disk, k) \cup Stored(memory, k)) = {}

Increasing(s) == \A i, j \in DOMAIN s : i < j => s[i] < s[j]

\* Crashes and failed saves neither reorder nor duplicate entries, and
\* get_recent_conversation() leaves out a conversation that was acknowledged
\* only in favour of as many later ones as the limit asks for.
RecentIsRecent ==
  /\ \A m \in {disk, memory} \ {Absent, Torn, NoMemory} :
       \A k \in Kinds : Increasing(m[k])
  /\ step = "ready" =>
       \A limit \in 0..(MaxEntries + 1) :
         LET recent == RecentConversation(limit)
         IN  \A e \in acked["conversations"] \ Range(recent) :
               Len(recent) = limit /\ \A i \in 1..limit : recent[i] > e

\* Once the process has died with the file torn, no later start gets a
\* MemoryManager: nothing ever repairs or replaces the file.
TornIsFinal ==
  [](disk = Torn /\ step = "down" => [](disk = Torn /\ step \in {"down", "load"}))
=============================================================================
