---------------------------- MODULE ResourceArena ----------------------------
(***************************************************************************)
(* The resource arena of each thread (plat/mem/Arena.cpp): blocks are cut  *)
(* from the top of the newest chunk, marks remember a top and roll back to *)
(* it (OSThread.cpp, ResourceArenaMark), chunks come from malloc and go to *)
(* pools that all threads share (ArenaChunk.cpp, ArenaChunkPool.cpp), which*)
(* a periodic task cleans.                                                 *)
(*                                                                         *)
(* A thread works on its own arena; what threads share is malloc and the   *)
(* pools, under GlobalLocker.  So a call is one action.                    *)
(*                                                                         *)
(* Lengths count words; positions count from the bottom of a chunk, behind *)
(* its header.  malloc may hand out an address again that was freed.       *)
(* Assertions are compiled out: with them compiled in, ~Arena always stops *)
(* the program (Arena.cpp:129).                                            *)
(***************************************************************************)
EXTENDS Integers, Sequences, FiniteSets

CONSTANTS
    Threads,
    Chunks, null,     \* the addresses malloc can return (a bound), nullptr
    NoError,          \* the program runs
    HeaderWords,      \* sizeof(ArenaChunk)
    PooledWords,      \* the lengths that have a pool
    InitWords,        \* the length an arena starts with
    LargeWords,       \* ArenaChunk::large_bytes
    Requests,         \* sizes asked for
    MaxMarks          \* bound: nested marks

ASSUME ResourceArenaAssumption ==
    /\ HeaderWords \in Nat \ {0} /\ InitWords \in Nat /\ LargeWords \in Nat
    /\ InitWords > HeaderWords /\ LargeWords > HeaderWords
    /\ Requests \subseteq Nat \ {0} /\ PooledWords \subseteq Nat /\ MaxMarks \in Nat
    /\ null \notin Chunks

VARIABLES
    chunk,     \* what malloc gave: length, next
    malloced,  \* the addresses in use
    arena,     \* Arena: head, tail, top, end, total of each thread
    marks,     \* the threads' SavedData, outermost first
    blocks,    \* the blocks each thread uses, with the marks around them
    pool,      \* ArenaChunkPool: a list per length
    vm_error   \* what stopped the program

vars == <<chunk, malloced, arena, marks, blocks, pool, vm_error>>

NoArena == [head |-> null, tail |-> null, top |-> 0, end |-> 0, total |-> 0]
has_arena(t) == arena[t].head # null
Runs == vm_error = NoError

Init ==
    /\ chunk = [c \in Chunks |-> [length |-> 0, next |-> null]]
    /\ malloced = {}
    /\ arena = [t \in Threads |-> NoArena]
    /\ marks = [t \in Threads |-> <<>>] /\ blocks = [t \in Threads |-> {}]
    /\ pool = [n \in PooledWords |-> <<>>] /\ vm_error = NoError

MAX2(a, b) == IF a > b THEN a ELSE b

-----------------------------------------------------------------------------
(* Arena::new_chunk.  ArenaChunk's operator new looks for a pool of the    *)
(* header's size, which there is not, so every chunk comes from malloc: it *)
(* gets header and length, but the constructor puts the end of the chunk a *)
(* header's length before the end of that memory.                          *)
Length(words) == words - HeaderWords

(* The arena with a chunk behind; the new chunk points to the older one.   *)
with_chunk(a, c, words) ==
    [head |-> IF a.head = null THEN c ELSE a.head, tail |-> c,
     top |-> 0, end |-> Length(words), total |-> a.total + words]
new_chunk(a, c, words) ==
    /\ c \in Chunks \ malloced
    /\ malloced' = malloced \cup {c}
    /\ chunk' = [chunk EXCEPT ![c] = [length |-> Length(words), next |-> a.tail]]

(* OSThread::global_initialize makes the thread's arena.                   *)
Create(t, c) ==
    /\ Runs /\ ~has_arena(t)
    /\ new_chunk(NoArena, c, InitWords)
    /\ arena' = [arena EXCEPT ![t] = with_chunk(NoArena, c, InitWords)]
    /\ UNCHANGED <<marks, blocks, pool, vm_error>>

-----------------------------------------------------------------------------
(* Arena::alloc.  The room is an unsigned difference: a top behind the end *)
(* is room for everything.                                                 *)
Room(a) == a.end - a.top
Fits(a, words) == Room(a) < 0 \/ Room(a) >= words
Used(t, c, at, words) ==
    blocks' = [blocks EXCEPT ![t] = blocks[t] \cup
                 {[chunk |-> c, at |-> at, words |-> words, depth |-> Len(marks[t])]}]
TopAt(a, top) == [head |-> a.head, tail |-> a.tail, top |-> top, end |-> a.end, total |-> a.total]

Alloc(t, words) ==
    /\ Runs /\ has_arena(t) /\ Fits(arena[t], words)
    /\ arena' = [arena EXCEPT ![t] = TopAt(arena[t], arena[t].top + words)]
    /\ Used(t, arena[t].tail, arena[t].top, words)
    /\ UNCHANGED <<chunk, malloced, marks, pool, vm_error>>

AllocInNewChunk(t, words, c) ==
    LET length == MAX2(words, LargeWords) IN
    /\ Runs /\ has_arena(t) /\ ~Fits(arena[t], words)
    /\ new_chunk(arena[t], c, length)
    /\ arena' = [arena EXCEPT ![t] = TopAt(with_chunk(arena[t], c, length), words)]
    /\ Used(t, c, 0, words)
    /\ UNCHANGED <<marks, pool, vm_error>>

(* Arena::free: only the newest block's memory becomes free again.         *)
Free(t, b) ==
    LET a == arena[t]
    IN /\ Runs /\ b \in blocks[t]
       /\ blocks' = [blocks EXCEPT ![t] = blocks[t] \ {b}]
       /\ arena' = [arena EXCEPT ![t] =
                      IF b.chunk = a.tail /\ b.at + b.words = a.top THEN TopAt(a, b.at) ELSE a]
       /\ UNCHANGED <<chunk, malloced, marks, pool, vm_error>>

-----------------------------------------------------------------------------
(* ResourceArenaMark saves the state of the arena.                         *)
Mark(t) ==
    /\ Runs /\ has_arena(t) /\ Len(marks[t]) < MaxMarks
    /\ marks' = [marks EXCEPT ![t] = Append(marks[t], arena[t])]
    /\ UNCHANGED <<chunk, malloced, arena, blocks, pool, vm_error>>

\* Mutant: the top stays where the newest chunk had it.
RollbackKeepsTop(t) ==
    LET saved == marks[t][Len(marks[t])] IN
    /\ Runs /\ marks[t] # <<>>
    /\ arena' = [arena EXCEPT ![t] =
         [head |-> arena[t].head, tail |-> saved.tail, top |-> arena[t].top,
          end |-> saved.end, total |-> saved.total]]
    /\ marks' = [marks EXCEPT ![t] = SubSeq(marks[t], 1, Len(marks[t]) - 1)]
    /\ blocks' = [blocks EXCEPT ![t] = {b \in blocks[t] : b.depth < Len(marks[t])}]
    /\ UNCHANGED <<chunk, malloced, pool, vm_error>>

(* SavedData::rollback_to.  It cuts the list behind the saved chunk, which *)
(* points to an older chunk, and then finds nothing behind it to free: the *)
(* chunks since the mark stay allocated.                                   *)
Rollback(t) ==
    LET saved == marks[t][Len(marks[t])] IN
    /\ Runs /\ marks[t] # <<>>
    /\ arena' = [arena EXCEPT ![t] =
         [head |-> arena[t].head, tail |-> saved.tail, top |-> saved.top,
          end |-> saved.end, total |-> saved.total]]
    /\ chunk' = [chunk EXCEPT ![saved.tail] =
                   [length |-> chunk[saved.tail].length, next |-> null]]
    /\ marks' = [marks EXCEPT ![t] = SubSeq(marks[t], 1, Len(marks[t]) - 1)]
    /\ blocks' = [blocks EXCEPT ![t] = {b \in blocks[t] : b.depth < Len(marks[t])}]
    /\ UNCHANGED <<malloced, pool, vm_error>>

-----------------------------------------------------------------------------
(* ~OSThread deletes the arena, whose destructor frees the chunks from the *)
(* head on: the head, which points to none.  A chunk of a pooled length    *)
(* goes to its pool, another to free().                                    *)
Destroy(t) ==
    LET c == arena[t].head
        n == chunk[c].length
    IN /\ Runs /\ has_arena(t) /\ marks[t] = <<>>
       /\ arena' = [arena EXCEPT ![t] = NoArena] /\ blocks' = [blocks EXCEPT ![t] = {}]
       /\ IF n \in PooledWords
          THEN pool' = [pool EXCEPT ![n] = <<c>> \o pool[n]] /\ UNCHANGED malloced
          ELSE malloced' = malloced \ {c} /\ UNCHANGED pool
       /\ chunk' = [chunk EXCEPT ![c] = [length |-> 0, next |-> null]]
       /\ UNCHANGED <<marks, vm_error>>

(* ArenaChunkPool::clean, by the cleaning task: it frees what is in the    *)
(* pools, and the heads of the pools stay.                                 *)
Pooled == {c \in Chunks : \E n \in PooledWords : \E i \in DOMAIN pool[n] : pool[n][i] = c}
Clean ==
    /\ Runs
    /\ IF Pooled \subseteq malloced
       THEN malloced' = malloced \ Pooled /\ UNCHANGED vm_error
       ELSE vm_error' = "ArenaChunkPool.cpp:41" /\ UNCHANGED malloced
    /\ UNCHANGED <<chunk, arena, marks, blocks, pool>>

Next ==
    \/ \E t \in Threads :
          \/ \E c \in Chunks : Create(t, c)
          \/ \E n \in Requests :
                Alloc(t, n) \/ \E c \in Chunks : AllocInNewChunk(t, n, c)
          \/ \E b \in blocks[t] : Free(t, b)
          \/ Mark(t) \/ Rollback(t) \/ Destroy(t)
    \/ Clean

Spec == Init /\ [][Next]_vars

-----------------------------------------------------------------------------
(* The blocks in use, of all threads, lie in memory malloc gave and share  *)
(* none of it, and what an arena hands out next begins behind the blocks   *)
(* it handed out before, however marks, frees and rollbacks follow each    *)
(* other (Arena.cpp:72-125, 165-182).                                      *)
InUse == UNION {{<<t, b>> : b \in blocks[t]} : t \in Threads}
End(b) == b.at + b.words
BlocksDisjoint ==
    \A u, v \in InUse :
      u # v => \/ u[2].chunk # v[2].chunk
               \/ End(u[2]) <= v[2].at \/ End(v[2]) <= u[2].at
BelowTop ==
    \A t \in Threads : \A b \in blocks[t] : b.chunk = arena[t].tail => End(b) <= arena[t].top
BlocksInMemory ==
    \A u \in InUse :
      u[2].chunk \in malloced /\ End(u[2]) <= chunk[u[2].chunk].length + HeaderWords
BlocksSound == BlocksDisjoint /\ BelowTop /\ BlocksInMemory
=============================================================================
