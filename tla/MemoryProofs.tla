---------------------------- MODULE MemoryProofs ----------------------------
(***************************************************************************)
(* The blocks of the resource arenas, the array, the list and the bit map  *)
(* of the kernel, and the log and the counters of the C heap, for any      *)
(* threads, addresses, lengths, nodes, widths of a word and tags.          *)
(*                                                                         *)
(* IInv      an arena and each of its marks point into a chunk in use, and *)
(*           the blocks of the time before lie below the top they remember *)
(* ArrayInv  the first places of the memory are the elements               *)
(* ListInv   some sequence of nodes is the list the pointers make          *)
(* BitInv    a bit is 1 exactly if it was marked, and whoever changes one  *)
(*           with others clears it                                         *)
(* HeapInv   a block is its owner's or in the hands of one call, whose     *)
(*           place tells what the log and the counters know of it          *)
(***************************************************************************)
EXTENDS MCMemory, SequenceTheorems, FiniteSetTheorems, WellFoundedInduction, TLAPS

-----------------------------------------------------------------------------
(* The resource arenas.                                                    *)

(* No request fills a chunk beyond its end.  The chunk of an arena is never*)
(* taken for one of a pool: the length kept in it, 1 K less slack and      *)
(* header, is none of the lengths that have a pool (ArenaChunk.hpp:27).    *)
Fitting ==
    /\ \A n \in Requests : n <= LargeWords - HeaderWords
    /\ InitWords - HeaderWords \notin PooledWords

ChunkAddresses == Chunks \cup {null}
ArenaChunks == [length : Int, next : ChunkAddresses]
Arenas == [head : ChunkAddresses, tail : ChunkAddresses, top : Nat, end : Int, total : Int]
Blocks == [chunk : Chunks, at : Nat, words : Nat \ {0}, depth : Nat]

Fields ==
    /\ chunk \in [Chunks -> ArenaChunks] /\ malloced \subseteq Chunks
    /\ arena \in [Threads -> Arenas] /\ marks \in [Threads -> Seq(Arenas)]
    /\ blocks \in [Threads -> SUBSET Blocks]
    /\ pool = [n \in PooledWords |-> <<>>]

(* a is a place in a chunk in use.                                         *)
Inside(a) == a.tail \in malloced /\ a.top <= a.end /\ a.end = chunk[a.tail].length

ArenaSound(t) ==
    IF has_arena(t)
    THEN /\ Inside(arena[t]) /\ arena[t].head \in malloced
         /\ chunk[arena[t].head].length = InitWords - HeaderWords
    ELSE marks[t] = <<>> /\ blocks[t] = {}

BlockSound(t, b) ==
    /\ b.chunk \in malloced /\ End(b) <= chunk[b.chunk].length
    /\ b.depth <= Len(marks[t])
    /\ b.chunk = arena[t].tail => End(b) <= arena[t].top

(* A block older than a mark lies below the top the mark remembers.        *)
MarkSound(t, i) ==
    /\ Inside(marks[t][i])
    /\ \A b \in blocks[t] :
         b.depth < i /\ b.chunk = marks[t][i].tail => End(b) <= marks[t][i].top

Apart(b, c) == b.chunk # c.chunk \/ End(b) <= c.at \/ End(c) <= b.at

Sound(t) ==
    /\ ArenaSound(t)
    /\ \A b \in blocks[t] : BlockSound(t, b)
    /\ \A i \in 1..Len(marks[t]) : MarkSound(t, i)
    /\ \A b, c \in blocks[t] : b # c => Apart(b, c)

(* c is a chunk that t has.                                                *)
Has(t, c) ==
    /\ has_arena(t)
    /\ \/ c \in {arena[t].head, arena[t].tail}
       \/ \E i \in 1..Len(marks[t]) : marks[t][i].tail = c
       \/ \E b \in blocks[t] : b.chunk = c
ChunkOwners == \A t, u \in Threads, c \in Chunks : Has(t, c) /\ Has(u, c) => t = u

IInv == Fields /\ (\A t \in Threads : Sound(t)) /\ ChunkOwners

-----------------------------------------------------------------------------
LEMMA IInvSound == IInv => BlocksSound
<1> SUFFICES ASSUME IInv PROVE BlocksSound
  OBVIOUS
<1>1. \A t \in Threads : Sound(t) /\ blocks[t] \subseteq Blocks
  BY DEF IInv, Fields
<1>2. BelowTop
  BY <1>1 DEF BelowTop, Sound, BlockSound
<1>3. ASSUME NEW u \in InUse
      PROVE  u[1] \in Threads /\ u[2] \in blocks[u[1]] /\ u = <<u[1], u[2]>>
  BY <1>3 DEF InUse
<1>4. BlocksInMemory
  <2> SUFFICES ASSUME NEW u \in InUse
               PROVE  u[2].chunk \in malloced /\ End(u[2]) <= chunk[u[2].chunk].length + HeaderWords
    BY DEF BlocksInMemory
  <2> DEFINE b == u[2]
  <2>1. b \in Blocks /\ b.chunk \in malloced /\ End(b) <= chunk[b.chunk].length
    BY <1>1, <1>3 DEF Sound, BlockSound
  <2>2. End(b) \in Int /\ chunk[b.chunk].length \in Int /\ HeaderWords \in Nat
    BY <2>1, ResourceArenaAssumption DEF IInv, Fields, Blocks, ArenaChunks, End
  <2> HIDE DEF b
  <2>3. End(b) <= chunk[b.chunk].length + HeaderWords
    BY <2>1, <2>2
  <2> QED
    BY <2>1, <2>3 DEF b
<1>5. BlocksDisjoint
  <2> SUFFICES ASSUME NEW u \in InUse, NEW v \in InUse, u # v
               PROVE  Apart(u[2], v[2])
    BY DEF BlocksDisjoint, Apart
  <2>1. CASE u[1] = v[1]
    BY <1>1, <1>3, <2>1 DEF Sound
  <2>2. CASE u[1] # v[1]
    <3>1. ASSUME NEW w \in InUse PROVE Has(w[1], w[2].chunk) /\ w[2].chunk \in Chunks
      <4>1. w[1] \in Threads /\ w[2] \in blocks[w[1]] /\ w[2] \in Blocks
        BY <1>1, <1>3
      <4>2. has_arena(w[1])
        BY <1>1, <4>1 DEF Sound, ArenaSound
      <4> QED
        BY <4>1, <4>2 DEF Has, Blocks
    <3>2. u[2].chunk # v[2].chunk
      BY <1>3, <2>2, <3>1 DEF IInv, ChunkOwners
    <3> QED BY <3>2 DEF Apart
  <2> QED BY <2>1, <2>2
<1> QED
  BY <1>2, <1>4, <1>5 DEF BlocksSound

-----------------------------------------------------------------------------
(* What a thread has is in use, and so is kept by a step of another that   *)
(* touches only chunks of its own, or new ones.                            *)
LEMMA InMemory ==
    ASSUME IInv, NEW t \in Threads, NEW c, Has(t, c)
    PROVE  c \in malloced /\ c \in Chunks
<1>1. Sound(t) /\ malloced \subseteq Chunks
  BY DEF IInv, Fields
<1>2. CASE c \in {arena[t].head, arena[t].tail}
  BY <1>1, <1>2 DEF Has, Sound, ArenaSound, Inside
<1>3. CASE \E i \in 1..Len(marks[t]) : marks[t][i].tail = c
  BY <1>1, <1>3 DEF Sound, MarkSound, Inside
<1>4. CASE \E b \in blocks[t] : b.chunk = c
  BY <1>1, <1>4 DEF Sound, BlockSound
<1> QED
  BY <1>2, <1>3, <1>4 DEF Has

Untouched(u) ==
    /\ UNCHANGED <<arena[u], marks[u], blocks[u]>>
    /\ \A c \in Chunks : Has(u, c) => c \in malloced' /\ chunk'[c].length = chunk[c].length

LEMMA UntouchedSound ==
    ASSUME IInv, NEW u \in Threads, Untouched(u)
    PROVE  Sound(u)' /\ \A c \in Chunks : Has(u, c)' <=> Has(u, c)
<1>1. \A c \in Chunks : Has(u, c)' <=> Has(u, c)
  BY DEF Untouched, Has, has_arena
<1>2. Sound(u)
  BY DEF IInv
<1>3. ASSUME NEW c, Has(u, c)
      PROVE  c \in malloced' /\ chunk'[c].length = chunk[c].length
  BY <1>3, InMemory DEF Untouched
<1>4. ArenaSound(u)'
  <2>1. CASE has_arena(u)
    <3>1. Has(u, arena[u].head) /\ Has(u, arena[u].tail)
      BY <2>1 DEF Has
    <3> QED
      BY <1>2, <1>3, <2>1, <3>1 DEF Sound, ArenaSound, Inside, has_arena, Untouched
  <2>2. CASE ~has_arena(u)
    BY <1>2, <2>2 DEF Sound, ArenaSound, has_arena, Untouched
  <2> QED BY <2>1, <2>2
<1>5. ASSUME NEW b \in blocks'[u] PROVE BlockSound(u, b)'
  <2>1. b \in blocks[u] /\ BlockSound(u, b)
    BY <1>2, <1>5 DEF Untouched, Sound
  <2>2. Has(u, b.chunk)
    BY <1>2, <2>1 DEF Has, Sound, ArenaSound
  <2> QED
    BY <1>3, <2>1, <2>2 DEF BlockSound, Untouched
<1>6. ASSUME NEW i \in 1..Len(marks'[u]) PROVE MarkSound(u, i)'
  <2>1. i \in 1..Len(marks[u]) /\ MarkSound(u, i)
    BY <1>2, <1>6 DEF Untouched, Sound
  <2>2. marks[u] # <<>>
    BY <2>1
  <2>3. Has(u, marks[u][i].tail)
    BY <1>2, <2>1, <2>2 DEF Has, Sound, ArenaSound
  <2> QED
    BY <1>3, <2>1, <2>3 DEF MarkSound, Inside, Untouched
<1>7. \A b, c \in blocks'[u] : b # c => Apart(b, c)
  BY <1>2 DEF Untouched, Sound
<1> QED
  BY <1>1, <1>4, <1>5, <1>6, <1>7 DEF Sound

(* A step of thread t.                                                     *)
LEMMA StepKeeps ==
    ASSUME IInv, NEW t \in Threads, Fields', Sound(t)',
           \A u \in Threads \ {t} : Untouched(u),
           \A c \in Chunks : Has(t, c)' => Has(t, c) \/ c \notin malloced
    PROVE  IInv'
<1>1. ASSUME NEW u \in Threads PROVE Sound(u)'
  BY <1>1, UntouchedSound
<1>2. ASSUME NEW u \in Threads \ {t}, NEW c \in Chunks, Has(u, c)'
      PROVE  Has(u, c) /\ ~Has(t, c)'
  <2>1. Has(u, c) /\ c \in malloced
    BY <1>2, UntouchedSound, InMemory
  <2> QED
    BY <2>1 DEF IInv, ChunkOwners
<1>3. ChunkOwners'
  <2> SUFFICES ASSUME NEW u \in Threads, NEW v \in Threads, NEW c \in Chunks, Has(u, c)', Has(v, c)', u # v
               PROVE  FALSE
    BY DEF ChunkOwners
  <2>1. CASE u = t \/ v = t
    BY <1>2, <2>1
  <2>2. CASE u # t /\ v # t
    <3>1. Has(u, c) /\ Has(v, c)
      BY <1>2, <2>2
    <3> QED BY <3>1 DEF IInv, ChunkOwners
  <2> QED BY <2>1, <2>2
<1> QED
  BY <1>1, <1>3 DEF IInv

(* The other threads, as chunks keep their lengths.                        *)
LEMMA OthersUntouched ==
    ASSUME IInv, NEW t \in Threads, NEW u \in Threads \ {t},
           UNCHANGED <<arena[u], marks[u], blocks[u]>>,
           malloced \subseteq malloced',
           \A c \in malloced : chunk'[c].length = chunk[c].length
    PROVE  Untouched(u)
BY InMemory DEF Untouched

-----------------------------------------------------------------------------
(* The operations.                                                         *)

LEMMA ThreadFacts ==
    ASSUME IInv, NEW t \in Threads
    PROVE  /\ Sound(t) /\ arena[t] \in Arenas /\ marks[t] \in Seq(Arenas)
           /\ blocks[t] \subseteq Blocks /\ Len(marks[t]) \in Nat
           /\ HeaderWords \in Nat /\ null \notin Chunks
           /\ \A b \in blocks[t] : /\ b.chunk \in Chunks /\ b.at \in Nat /\ b.words \in Nat \ {0}
                                    /\ b.depth \in Nat /\ End(b) \in Nat
<1>1. Sound(t) /\ arena[t] \in Arenas /\ marks[t] \in Seq(Arenas) /\ blocks[t] \subseteq Blocks
  BY DEF IInv, Fields
<1> QED
  BY <1>1, ResourceArenaAssumption DEF Blocks, End

(* Only t changes.                                                         *)
LEMMA Updated ==
    ASSUME NEW S, NEW f \in [Threads -> S], NEW t \in Threads, NEW v, NEW g, g = [f EXCEPT ![t] = v]
    PROVE  /\ g[t] = v /\ \A u \in Threads \ {t} : g[u] = f[u]
           /\ v \in S => g \in [Threads -> S]
OBVIOUS

(* A new chunk.                                                            *)
LEMMA NewChunk ==
    ASSUME IInv, NEW a, NEW c, NEW words \in Int, a.tail \in ChunkAddresses, new_chunk(a, c, words)
    PROVE  /\ c \in Chunks /\ c \notin malloced /\ malloced' = malloced \cup {c}
           /\ chunk' \in [Chunks -> ArenaChunks] /\ chunk'[c].length = words - HeaderWords
           /\ \A d \in malloced : chunk'[d] = chunk[d]
<1>1. [length |-> words - HeaderWords, next |-> a.tail] \in ArenaChunks
  BY ResourceArenaAssumption DEF ArenaChunks
<1> QED
  BY <1>1 DEF new_chunk, Length, IInv, Fields

LEMMA CreateKeeps ==
    ASSUME IInv, NEW t \in Threads, NEW c \in Chunks, Create(t, c)
    PROVE  IInv'
<1> DEFINE a == with_chunk(NoArena, c, InitWords)
<1>1. InitWords \in Int /\ HeaderWords \in Nat /\ InitWords - HeaderWords > 0
  BY ResourceArenaAssumption
<1>2. /\ c \notin malloced /\ malloced' = malloced \cup {c}
      /\ chunk' \in [Chunks -> ArenaChunks] /\ chunk'[c].length = InitWords - HeaderWords
      /\ \A d \in malloced : chunk'[d] = chunk[d]
  BY <1>1, NewChunk DEF Create, NoArena, ChunkAddresses
<1>3. /\ a.head = c /\ a.tail = c /\ a.top = 0 /\ a.end = InitWords - HeaderWords /\ a \in Arenas
  BY <1>1 DEF with_chunk, NoArena, Length, Arenas, ChunkAddresses
<1>4. marks[t] = <<>> /\ blocks[t] = {} /\ UNCHANGED <<marks, blocks, pool>>
  BY ThreadFacts DEF Create, Sound, ArenaSound
<1>5. arena' = [arena EXCEPT ![t] = a]
  BY DEF Create
<1> HIDE DEF a
<1>6. /\ arena'[t] = a /\ arena' \in [Threads -> Arenas]
      /\ \A u \in Threads \ {t} : UNCHANGED <<arena[u], marks[u], blocks[u]>>
  BY <1>3, <1>4, <1>5 DEF IInv, Fields
<1>7. Fields'
  BY <1>2, <1>4, <1>6 DEF IInv, Fields
<1>8. Sound(t)'
  BY <1>1, <1>2, <1>3, <1>4, <1>6, ResourceArenaAssumption
     DEF Sound, ArenaSound, Inside, has_arena
<1>9. \A d \in Chunks : Has(t, d)' => d = c
  BY <1>3, <1>4, <1>6 DEF Has
<1>10. \A u \in Threads \ {t} : Untouched(u)
  BY <1>2, <1>6, OthersUntouched
<1> QED
  BY <1>2, <1>7, <1>8, <1>9, <1>10, StepKeeps

(* A block of the size asked for, at the top of an arena; older blocks lie *)
(* below it or in other chunks.                                            *)
NewBlock(t, c, at, words) == [chunk |-> c, at |-> at, words |-> words, depth |-> Len(marks[t])]

LEMMA BlockAdded ==
    ASSUME IInv, NEW t \in Threads, NEW c \in Chunks, NEW top \in Nat, NEW words \in Nat \ {0},
           Used(t, c, top, words), UNCHANGED <<marks, pool>>,
           NEW a, a \in Arenas, arena' = [arena EXCEPT ![t] = a],
           a.head = arena[t].head, has_arena(t), a.tail = c, a.top = top + words, a.top <= a.end,
           chunk' \in [Chunks -> ArenaChunks], malloced' \subseteq Chunks,
           malloced \subseteq malloced', c \in malloced', a.end = chunk'[c].length,
           \A d \in malloced : chunk'[d].length = chunk[d].length,
           \/ c \notin malloced
           \/ c = arena[t].tail /\ top = arena[t].top
    PROVE  IInv'
<1> DEFINE n == NewBlock(t, c, top, words)
<1>1. /\ Sound(t) /\ Len(marks[t]) \in Nat /\ blocks[t] \subseteq Blocks /\ marks[t] \in Seq(Arenas)
      /\ \A b \in blocks[t] : b.depth \in Nat /\ End(b) \in Nat /\ b.at \in Nat
  BY ThreadFacts
<1>2. /\ n \in Blocks /\ n.chunk = c /\ n.at = top /\ End(n) = top + words
      /\ n.depth = Len(marks[t])
  BY <1>1 DEF NewBlock, Blocks, End
<1>3. blocks' = [blocks EXCEPT ![t] = blocks[t] \cup {n}] /\ marks' = [marks EXCEPT ![t] = marks[t]]
  BY DEF Used, NewBlock, IInv, Fields
<1> HIDE DEF n
<1>4. /\ arena'[t] = a /\ marks'[t] = marks[t] /\ blocks'[t] = blocks[t] \cup {n}
      /\ \A u \in Threads \ {t} : UNCHANGED <<arena[u], marks[u], blocks[u]>>
      /\ arena' \in [Threads -> Arenas] /\ blocks' \in [Threads -> SUBSET Blocks]
  <2>1. blocks[t] \cup {n} \subseteq Blocks
    BY <1>1, <1>2
  <2>2. arena \in [Threads -> Arenas] /\ blocks \in [Threads -> SUBSET Blocks]
    BY DEF IInv, Fields
  <2>3. /\ arena'[t] = a /\ \A u \in Threads \ {t} : arena'[u] = arena[u]
        /\ arena' \in [Threads -> Arenas]
    BY <2>2, Updated
  <2>4. /\ blocks'[t] = blocks[t] \cup {n} /\ \A u \in Threads \ {t} : blocks'[u] = blocks[u]
        /\ blocks' \in [Threads -> SUBSET Blocks]
    <3> DEFINE bs == blocks[t] \cup {n}
    <3>1. bs \in SUBSET Blocks /\ blocks' = [blocks EXCEPT ![t] = bs]
      BY <1>3, <2>1
    <3> HIDE DEF bs
    <3>2. /\ blocks'[t] = bs /\ \A u \in Threads \ {t} : blocks'[u] = blocks[u]
          /\ blocks' \in [Threads -> SUBSET Blocks]
      BY <2>2, <3>1, Updated
    <3> QED BY <3>2 DEF bs
  <2>5. marks' = marks
    OBVIOUS
  <2> QED BY <2>3, <2>4, <2>5
<1>5. Fields'
  BY <1>4 DEF IInv, Fields
<1>6. /\ ArenaSound(t) /\ Inside(arena[t]) /\ arena[t].head \in malloced
      /\ \A b \in blocks[t] : BlockSound(t, b)
      /\ \A i \in 1..Len(marks[t]) : MarkSound(t, i)
  BY <1>1 DEF Sound, ArenaSound
<1>7. ArenaSound(t)'
  BY <1>4, <1>6 DEF ArenaSound, Inside, has_arena
<1>8. ASSUME NEW b \in blocks[t], b.chunk = c PROVE End(b) <= top
  <2>1. b.chunk \in malloced /\ (b.chunk = arena[t].tail => End(b) <= arena[t].top)
    BY <1>6 DEF BlockSound
  <2> QED BY <1>8, <2>1
<1>9. ASSUME NEW b \in blocks'[t] PROVE BlockSound(t, b)'
  <2>1. CASE b = n
    BY <1>1, <1>2, <1>4, <2>1 DEF BlockSound
  <2>2. CASE b \in blocks[t]
    <3>1. BlockSound(t, b)
      BY <1>6, <2>2
    <3>2. b.chunk = c => End(b) <= a.top
      <4>1. End(b) \in Nat
        BY <1>1, <2>2
      <4> QED BY <1>8, <2>2, <4>1
    <3> QED
      BY <1>4, <3>1, <3>2 DEF BlockSound
  <2> QED BY <1>4, <1>9, <2>1, <2>2
<1>10. ASSUME NEW i \in 1..Len(marks'[t]) PROVE MarkSound(t, i)'
  <2>1. i \in 1..Len(marks[t]) /\ MarkSound(t, i)
    BY <1>4, <1>6, <1>10
  <2>2. ~(n.depth < i)
    BY <1>1, <1>2, <2>1
  <2> QED
    BY <1>4, <2>1, <2>2 DEF MarkSound, Inside
<1>11. ASSUME NEW b \in blocks'[t], NEW d \in blocks'[t], b # d PROVE Apart(b, d)
  <2>1. CASE b \in blocks[t] /\ d \in blocks[t]
    BY <1>1, <1>11, <2>1 DEF Sound
  <2>2. CASE b = n
    BY <1>2, <1>4, <1>8, <1>11, <2>2 DEF Apart
  <2>3. CASE d = n
    BY <1>2, <1>4, <1>8, <1>11, <2>3 DEF Apart
  <2> QED BY <1>4, <2>1, <2>2, <2>3
<1>12. Sound(t)'
  BY <1>7, <1>9, <1>10, <1>11 DEF Sound
<1>13. \A d \in Chunks : Has(t, d)' => Has(t, d) \/ d \notin malloced
  BY <1>2, <1>4 DEF Has, has_arena
<1>14. \A u \in Threads \ {t} : Untouched(u)
  BY <1>4, OthersUntouched
<1> QED
  BY <1>5, <1>12, <1>13, <1>14, StepKeeps

LEMMA TopFacts ==
    ASSUME NEW a \in Arenas, NEW top \in Nat
    PROVE  /\ TopAt(a, top) \in Arenas /\ TopAt(a, top).head = a.head /\ TopAt(a, top).tail = a.tail
           /\ TopAt(a, top).top = top /\ TopAt(a, top).end = a.end
BY DEF TopAt, Arenas

LEMMA AllocKeeps ==
    ASSUME IInv, NEW t \in Threads, NEW n \in Requests, Alloc(t, n)
    PROVE  IInv'
<1> DEFINE a == arena[t]
           new == TopAt(a, a.top + n)
<1>1. /\ n \in Nat \ {0} /\ a \in Arenas /\ has_arena(t) /\ Inside(a)
      /\ a.top \in Nat /\ a.end \in Int
  <2>1. n \in Nat \ {0}
    BY ResourceArenaAssumption
  <2>2. a \in Arenas /\ Sound(t) /\ has_arena(t)
    BY ThreadFacts DEF Alloc
  <2> QED
    BY <2>1, <2>2 DEF Sound, ArenaSound, Arenas
<1>2. a.top + n <= a.end
  BY <1>1 DEF Alloc, Fits, Room, Inside
<1>3. new \in Arenas /\ new.head = a.head /\ new.tail = a.tail /\ new.top = a.top + n /\ new.end = a.end
  <2>1. a \in Arenas /\ a.top + n \in Nat
    BY <1>1
  <2> HIDE DEF a
  <2> QED BY <2>1, TopFacts
<1>4. /\ arena' = [arena EXCEPT ![t] = new] /\ Used(t, a.tail, a.top, n)
      /\ UNCHANGED <<chunk, malloced, marks, pool>>
  BY DEF Alloc
<1>5. /\ a.tail \in malloced /\ a.end = chunk[a.tail].length /\ a.tail \in Chunks
      /\ chunk \in [Chunks -> ArenaChunks] /\ malloced \subseteq Chunks
  BY <1>1 DEF Inside, IInv, Fields
<1> HIDE DEF new
<1>6. /\ chunk' \in [Chunks -> ArenaChunks] /\ malloced' \subseteq Chunks
      /\ malloced \subseteq malloced' /\ a.tail \in malloced' /\ new.end = chunk'[a.tail].length
      /\ \A d \in malloced : chunk'[d].length = chunk[d].length
      /\ new.top <= new.end /\ new.head = arena[t].head
  BY <1>2, <1>3, <1>4, <1>5
<1> QED
  BY <1>1, <1>3, <1>4, <1>5, <1>6, BlockAdded

LEMMA AllocInNewChunkKeeps ==
    ASSUME IInv, Fitting, NEW t \in Threads, NEW n \in Requests, NEW c \in Chunks,
           AllocInNewChunk(t, n, c)
    PROVE  IInv'
<1> DEFINE with == with_chunk(arena[t], c, LargeWords)
           new == TopAt(with, n)
<1>1. /\ n \in Nat \ {0} /\ n <= LargeWords - HeaderWords /\ LargeWords \in Nat /\ HeaderWords \in Nat
  BY ResourceArenaAssumption DEF Fitting
<1>2. MAX2(n, LargeWords) = LargeWords
  BY <1>1 DEF MAX2
<1>3. /\ has_arena(t) /\ new_chunk(arena[t], c, LargeWords)
      /\ arena' = [arena EXCEPT ![t] = new] /\ Used(t, c, 0, n) /\ UNCHANGED <<marks, pool>>
  BY <1>2 DEF AllocInNewChunk
<1>4. arena[t] \in Arenas /\ arena[t].tail \in ChunkAddresses /\ arena[t].head # null
  BY <1>3, ThreadFacts DEF Arenas, has_arena
<1>5. /\ with \in Arenas /\ with.head = arena[t].head /\ with.tail = c
      /\ with.end = LargeWords - HeaderWords
  BY <1>1, <1>4 DEF with_chunk, Length, Arenas, ChunkAddresses
<1> HIDE DEF with
<1>6. /\ new \in Arenas /\ new.head = arena[t].head /\ new.tail = c
      /\ new.top = n /\ new.end = LargeWords - HeaderWords
  BY <1>1, <1>5, TopFacts
<1> HIDE DEF new
<1>7. /\ c \notin malloced /\ malloced' = malloced \cup {c}
      /\ chunk' \in [Chunks -> ArenaChunks] /\ chunk'[c].length = LargeWords - HeaderWords
      /\ \A d \in malloced : chunk'[d] = chunk[d]
  BY <1>1, <1>3, <1>4, NewChunk
<1>8. /\ malloced' \subseteq Chunks /\ malloced \subseteq malloced' /\ c \in malloced'
      /\ new.end = chunk'[c].length /\ \A d \in malloced : chunk'[d].length = chunk[d].length
      /\ new.top = 0 + n /\ new.top <= new.end /\ 0 \in Nat
  BY <1>1, <1>6, <1>7 DEF IInv, Fields
<1> QED
  BY <1>1, <1>3, <1>6, <1>7, <1>8, BlockAdded

(* A step that leaves chunks and addresses in use as they are: it is enough*)
(* that t is sound and has no more than before.                            *)
LEMMA OwnStep ==
    ASSUME IInv, NEW t \in Threads, UNCHANGED <<malloced, pool>>,
           chunk' \in [Chunks -> ArenaChunks], \A d \in Chunks : chunk'[d].length = chunk[d].length,
           arena' \in [Threads -> Arenas], marks' \in [Threads -> Seq(Arenas)],
           blocks' \in [Threads -> SUBSET Blocks],
           \A u \in Threads \ {t} : UNCHANGED <<arena[u], marks[u], blocks[u]>>,
           Sound(t)', \A c \in Chunks : Has(t, c)' => Has(t, c)
    PROVE  IInv'
<1>1. Fields'
  BY DEF IInv, Fields
<1>2. \A d \in malloced : chunk'[d].length = chunk[d].length
  BY DEF IInv, Fields
<1>3. \A u \in Threads \ {t} : Untouched(u)
  BY <1>2, OthersUntouched
<1> QED
  BY <1>1, <1>3, StepKeeps

LEMMA FreeKeeps ==
    ASSUME IInv, NEW t \in Threads, NEW b \in blocks[t], Free(t, b)
    PROVE  IInv'
<1> DEFINE a == arena[t]
           newest == b.chunk = a.tail /\ b.at + b.words = a.top
           new == IF newest THEN TopAt(a, b.at) ELSE a
<1>1. /\ Sound(t) /\ a \in Arenas /\ Len(marks[t]) \in Nat /\ a.top \in Nat /\ a.end \in Int
      /\ \A d \in blocks[t] : /\ d.at \in Nat /\ d.words \in Nat \ {0} /\ End(d) \in Nat
                               /\ d.depth \in Nat
  BY ThreadFacts DEF Arenas
<1>2. /\ has_arena(t) /\ Inside(a) /\ a.head \in malloced
      /\ chunk[a.head].length = InitWords - HeaderWords
  BY <1>1 DEF Sound, ArenaSound
<1>3. /\ new \in Arenas /\ new.head = a.head /\ new.tail = a.tail /\ new.end = a.end
      /\ new.top = IF newest THEN b.at ELSE a.top
  <2>1. TopAt(a, b.at) \in Arenas /\ TopAt(a, b.at).head = a.head /\ TopAt(a, b.at).tail = a.tail
        /\ TopAt(a, b.at).top = b.at /\ TopAt(a, b.at).end = a.end
    BY <1>1, TopFacts
  <2> QED BY <1>1, <2>1
<1>4. new.top <= a.top
  BY <1>1, <1>3
<1>5. /\ arena' = [arena EXCEPT ![t] = new] /\ blocks' = [blocks EXCEPT ![t] = blocks[t] \ {b}]
      /\ UNCHANGED <<chunk, malloced, marks, pool>>
  BY DEF Free
<1>6. /\ arena'[t] = new /\ blocks'[t] = blocks[t] \ {b} /\ marks'[t] = marks[t]
      /\ arena' \in [Threads -> Arenas] /\ marks' \in [Threads -> Seq(Arenas)]
      /\ blocks' \in [Threads -> SUBSET Blocks]
      /\ \A u \in Threads \ {t} : UNCHANGED <<arena[u], marks[u], blocks[u]>>
  <2> HIDE DEF new
  <2> QED BY <1>3, <1>5 DEF IInv, Fields
<1>7. ASSUME NEW d \in blocks'[t]
      PROVE  d \in blocks[t] /\ BlockSound(t, d)'
  <2>1. d \in blocks[t] /\ d # b /\ BlockSound(t, d) /\ Apart(b, d)
    BY <1>1, <1>6, <1>7 DEF Sound
  <2>2. d.chunk = a.tail => End(d) <= new.top
    <3> SUFFICES ASSUME d.chunk = a.tail PROVE End(d) <= new.top
      OBVIOUS
    <3>1. End(d) <= a.top
      BY <2>1 DEF BlockSound
    <3>2. CASE newest
      <4>1. End(d) <= b.at \/ End(b) <= d.at
        BY <2>1, <3>2 DEF Apart
      <4>2. End(b) = a.top /\ End(d) = d.at + d.words /\ new.top = b.at
        BY <1>3, <3>2 DEF End
      <4>3. d.at \in Nat /\ d.words \in Nat \ {0} /\ b.at \in Nat
        BY <1>1, <2>1
      <4> HIDE DEF new, newest, a
      <4> QED BY <1>1, <3>1, <4>1, <4>2, <4>3
    <3>3. CASE ~newest
      BY <1>3, <3>1, <3>3
    <3> QED BY <3>2, <3>3
  <2> HIDE DEF new, newest
  <2> QED
    BY <1>3, <1>5, <1>6, <2>1, <2>2 DEF BlockSound
<1>8. ASSUME NEW i \in 1..Len(marks'[t]) PROVE MarkSound(t, i)'
  BY <1>1, <1>5, <1>6, <1>8 DEF Sound, MarkSound, Inside
<1>9. ArenaSound(t)'
  <2>1. new.top <= new.end
    BY <1>1, <1>2, <1>3, <1>4 DEF Inside, Arenas
  <2> HIDE DEF new, newest
  <2> QED
    BY <1>2, <1>3, <1>5, <1>6, <2>1 DEF ArenaSound, Inside, has_arena
<1>10. Sound(t)'
  <2>1. \A d, e \in blocks'[t] : d # e => Apart(d, e)
    BY <1>1, <1>6 DEF Sound
  <2> QED
    BY <1>7, <1>8, <1>9, <2>1 DEF Sound
<1>11. \A c \in Chunks : Has(t, c)' => Has(t, c)
  <2> HIDE DEF new, newest
  <2> QED BY <1>2, <1>3, <1>6 DEF Has
<1>12. chunk' \in [Chunks -> ArenaChunks] /\ UNCHANGED <<malloced, pool>>
       /\ \A d \in Chunks : chunk'[d].length = chunk[d].length
  BY <1>5 DEF IInv, Fields
<1> QED
  BY <1>6, <1>10, <1>11, <1>12, OwnStep

LEMMA MarkKeeps ==
    ASSUME IInv, NEW t \in Threads, Mark(t)
    PROVE  IInv'
<1> DEFINE a == arena[t]
           m == marks[t]
           n == Len(m)
<1>1. /\ Sound(t) /\ a \in Arenas /\ m \in Seq(Arenas) /\ n \in Nat
      /\ \A b \in blocks[t] : b.depth \in Nat
  BY ThreadFacts
<1>2. has_arena(t) /\ Inside(a)
  BY <1>1 DEF Mark, Sound, ArenaSound
<1>3. marks' = [marks EXCEPT ![t] = Append(m, a)] /\ UNCHANGED <<chunk, malloced, arena, blocks, pool>>
  BY DEF Mark
<1>4. /\ Append(m, a) \in Seq(Arenas) /\ Len(Append(m, a)) = n + 1 /\ Append(m, a)[n + 1] = a
      /\ \A i \in 1..n : Append(m, a)[i] = m[i]
  BY <1>1
<1>5. /\ marks'[t] = Append(m, a) /\ marks' \in [Threads -> Seq(Arenas)]
      /\ \A u \in Threads \ {t} : marks'[u] = marks[u]
  BY <1>3, <1>4, Updated DEF IInv, Fields
<1>6. ASSUME NEW b \in blocks[t]
      PROVE  BlockSound(t, b)' /\ BlockSound(t, b)
  <2>1. BlockSound(t, b)
    BY <1>1 DEF Sound
  <2>2. b.depth <= n + 1
    BY <1>1, <2>1 DEF BlockSound
  <2> HIDE DEF n
  <2> QED BY <1>3, <1>4, <1>5, <2>1, <2>2 DEF BlockSound
<1>7. ASSUME NEW i \in 1..(n + 1) PROVE MarkSound(t, i)'
  <2>1. CASE i \in 1..n
    <3>1. MarkSound(t, i) /\ marks'[t][i] = marks[t][i]
      BY <1>1, <1>4, <1>5, <2>1 DEF Sound
    <3> QED BY <1>3, <3>1 DEF MarkSound, Inside
  <2>2. CASE i = n + 1
    <3>1. marks'[t][i] = a
      BY <1>4, <1>5, <2>2
    <3> QED BY <1>2, <1>3, <1>6, <3>1 DEF MarkSound, Inside, BlockSound
  <2> QED BY <1>1, <1>7, <2>1, <2>2
<1>8. Sound(t)'
  <2>1. ArenaSound(t)'
    BY <1>1, <1>2, <1>3 DEF Sound, ArenaSound, Inside, has_arena
  <2>2. \A b, c \in blocks'[t] : b # c => Apart(b, c)
    BY <1>1, <1>3 DEF Sound
  <2>3. \A i \in 1..Len(marks'[t]) : MarkSound(t, i)'
    BY <1>4, <1>5, <1>7
  <2>4. \A b \in blocks'[t] : BlockSound(t, b)'
    BY <1>3, <1>6
  <2> QED
    BY <2>1, <2>2, <2>3, <2>4 DEF Sound
<1>9. ASSUME NEW c \in Chunks, Has(t, c)' PROVE Has(t, c)
  <2>1. CASE \E i \in 1..Len(marks'[t]) : marks'[t][i].tail = c
    <3>1. PICK i \in 1..(n + 1) : marks'[t][i].tail = c
      BY <1>4, <1>5, <2>1
    <3>2. i \in 1..n \/ i = n + 1
      BY <1>1
    <3> QED BY <1>2, <1>4, <1>5, <3>1, <3>2 DEF Has
  <2>2. CASE ~\E i \in 1..Len(marks'[t]) : marks'[t][i].tail = c
    BY <1>2, <1>3, <1>9, <2>2 DEF Has
  <2> QED BY <2>1, <2>2
<1>10. /\ chunk' \in [Chunks -> ArenaChunks] /\ UNCHANGED <<malloced, pool>>
       /\ \A d \in Chunks : chunk'[d].length = chunk[d].length
       /\ arena' \in [Threads -> Arenas] /\ blocks' \in [Threads -> SUBSET Blocks]
       /\ \A u \in Threads \ {t} : UNCHANGED <<arena[u], marks[u], blocks[u]>>
  BY <1>3, <1>5 DEF IInv, Fields
<1> QED
  BY <1>5, <1>8, <1>9, <1>10, OwnStep

LEMMA OneLess ==
    ASSUME NEW S, NEW s \in Seq(S), Len(s) > 0
    PROVE  /\ SubSeq(s, 1, Len(s) - 1) \in Seq(S) /\ Len(SubSeq(s, 1, Len(s) - 1)) = Len(s) - 1
           /\ \A i \in 1..(Len(s) - 1) : SubSeq(s, 1, Len(s) - 1)[i] = s[i]
<1> DEFINE n == Len(s) - 1
<1>1. n \in Nat /\ Len(s) \in Nat /\ \A i \in 1..n : i \in 1..Len(s)
  OBVIOUS
<1>2. \A i \in 1..n : s[i] \in S
  BY <1>1
<1>3. SubSeq(s, 1, n) = [i \in 1..n |-> s[i]]
  BY <1>1, SMT
<1> HIDE DEF n
<1>4. Len(SubSeq(s, 1, n)) = n
  BY <1>1, <1>3
<1>5. SubSeq(s, 1, n) \in Seq(S)
  BY <1>1, <1>2, <1>3
<1> QED
  BY <1>3, <1>4, <1>5 DEF n

LEMMA RollbackKeeps ==
    ASSUME IInv, NEW t \in Threads, Rollback(t)
    PROVE  IInv'
<1> DEFINE a == arena[t]
           m == marks[t]
           n == Len(m)
           saved == m[n]
           new == [head |-> a.head, tail |-> saved.tail, top |-> saved.top,
                   end |-> saved.end, total |-> saved.total]
           older == SubSeq(m, 1, n - 1)
           left == {b \in blocks[t] : b.depth < n}
<1>1. /\ Sound(t) /\ a \in Arenas /\ m \in Seq(Arenas) /\ n \in Nat /\ blocks[t] \subseteq Blocks
      /\ \A b \in blocks[t] : b.depth \in Nat
  BY ThreadFacts
<1>2. m # <<>> /\ n > 0 /\ n \in 1..n
  BY <1>1 DEF Rollback
<1>3. /\ has_arena(t) /\ a.head \in malloced /\ chunk[a.head].length = InitWords - HeaderWords
      /\ saved \in Arenas
  BY <1>1, <1>2 DEF Sound, ArenaSound
<1>4. MarkSound(t, n) /\ saved.tail \in malloced /\ saved.tail \in Chunks
  <2>1. MarkSound(t, n)
    BY <1>1, <1>2 DEF Sound
  <2> QED BY <2>1 DEF MarkSound, Inside, IInv, Fields
<1>5. new \in Arenas /\ new.head = a.head /\ new.tail = saved.tail /\ new.top = saved.top
      /\ new.end = saved.end
  <2> HIDE DEF a, saved
  <2> QED BY <1>1, <1>3 DEF Arenas
<1>6. /\ older \in Seq(Arenas) /\ Len(older) = n - 1 /\ \A i \in 1..(n - 1) : older[i] = m[i]
  BY <1>1, <1>2, OneLess DEF older
<1>7. /\ arena' = [arena EXCEPT ![t] = new] /\ marks' = [marks EXCEPT ![t] = older]
      /\ blocks' = [blocks EXCEPT ![t] = left] /\ UNCHANGED <<malloced, pool>>
      /\ chunk' = [chunk EXCEPT ![saved.tail] = [length |-> chunk[saved.tail].length, next |-> null]]
  BY DEF Rollback
<1>8. /\ chunk' \in [Chunks -> ArenaChunks]
      /\ \A d \in Chunks : chunk'[d].length = chunk[d].length
  <2> DEFINE c == saved.tail
             r == [length |-> chunk[c].length, next |-> null]
  <2>1. c \in Chunks /\ chunk \in [Chunks -> ArenaChunks]
    BY <1>4 DEF IInv, Fields
  <2>2. r \in ArenaChunks /\ r.length = chunk[c].length
    BY <2>1 DEF ArenaChunks, ChunkAddresses
  <2>3. chunk' = [chunk EXCEPT ![c] = r]
    BY <1>7
  <2> HIDE DEF c, r
  <2> QED BY <2>1, <2>2, <2>3
<1> HIDE DEF new, older
<1>9. /\ arena'[t] = new /\ marks'[t] = older /\ blocks'[t] = left
      /\ arena' \in [Threads -> Arenas] /\ marks' \in [Threads -> Seq(Arenas)]
      /\ blocks' \in [Threads -> SUBSET Blocks]
      /\ \A u \in Threads \ {t} : UNCHANGED <<arena[u], marks[u], blocks[u]>>
  <2>1. left \in SUBSET Blocks
    BY <1>1
  <2> HIDE DEF left
  <2> QED BY <1>5, <1>6, <1>7, <2>1 DEF IInv, Fields
<1>10. \A b \in left : b \in blocks[t] /\ b.depth < n /\ BlockSound(t, b)
  BY <1>1 DEF Sound
<1>11. ArenaSound(t)'
  <2>1. Inside(saved)
    BY <1>4 DEF MarkSound
  <2>2. a.head \in Chunks
    BY <1>3 DEF IInv, Fields
  <2> QED
    BY <1>3, <1>4, <1>5, <1>7, <1>8, <1>9, <2>1, <2>2 DEF ArenaSound, Inside, has_arena
<1>12. ASSUME NEW b \in left PROVE BlockSound(t, b)'
  <2>1. b.chunk = saved.tail => End(b) <= saved.top
    BY <1>4, <1>10, <1>12 DEF MarkSound
  <2>2. b.depth <= n - 1 /\ b.chunk \in Chunks
    BY <1>1, <1>2, <1>10, <1>12 DEF Blocks
  <2> HIDE DEF left, saved, n
  <2> QED
    BY <1>5, <1>6, <1>7, <1>8, <1>9, <1>10, <1>12, <2>1, <2>2 DEF BlockSound
<1>13. ASSUME NEW i \in 1..(n - 1) PROVE MarkSound(t, i)'
  <2>1. i \in 1..n /\ MarkSound(t, i) /\ marks'[t][i] = marks[t][i]
    BY <1>1, <1>2, <1>6, <1>9, <1>13 DEF Sound
  <2>2. marks[t][i].tail \in Chunks
    BY <2>1 DEF MarkSound, Inside, IInv, Fields
  <2> QED
    BY <1>7, <1>8, <1>9, <2>1, <2>2 DEF MarkSound, Inside
<1>14. Sound(t)'
  <2>1. \A b, c \in blocks'[t] : b # c => Apart(b, c)
    BY <1>1, <1>9 DEF Sound
  <2>2. \A i \in 1..Len(marks'[t]) : MarkSound(t, i)'
    BY <1>6, <1>9, <1>13
  <2> QED
    BY <1>9, <1>11, <1>12, <2>1, <2>2 DEF Sound
<1>15. ASSUME NEW c \in Chunks, Has(t, c)' PROVE Has(t, c)
  <2>1. CASE \E i \in 1..Len(marks'[t]) : marks'[t][i].tail = c
    <3>1. PICK i \in 1..(n - 1) : marks'[t][i].tail = c
      BY <1>6, <1>9, <2>1
    <3>2. i \in 1..n /\ m[i].tail = c
      BY <1>1, <1>6, <1>9, <3>1
    <3> QED BY <1>3, <3>2 DEF Has
  <2>2. CASE ~\E i \in 1..Len(marks'[t]) : marks'[t][i].tail = c
    <3>1. c \in {a.head, saved.tail} \/ \E b \in left : b.chunk = c
      BY <1>5, <1>9, <1>15, <2>2 DEF Has
    <3> QED BY <1>2, <1>3, <3>1 DEF Has
  <2> QED BY <2>1, <2>2
<1> QED
  BY <1>7, <1>8, <1>9, <1>14, <1>15, OwnStep

LEMMA DestroyKeeps ==
    ASSUME IInv, Fitting, NEW t \in Threads, Destroy(t)
    PROVE  IInv'
<1> DEFINE c == arena[t].head
<1>1. Sound(t) /\ has_arena(t) /\ marks[t] = <<>>
  BY ThreadFacts DEF Destroy
<1>2. c \in malloced /\ c \in Chunks /\ chunk[c].length = InitWords - HeaderWords /\ Has(t, c)
  BY <1>1 DEF Sound, ArenaSound, Has, IInv, Fields
<1>3. /\ arena' = [arena EXCEPT ![t] = NoArena] /\ blocks' = [blocks EXCEPT ![t] = {}]
      /\ malloced' = malloced \ {c} /\ UNCHANGED <<pool, marks>>
      /\ chunk' = [chunk EXCEPT ![c] = [length |-> 0, next |-> null]]
  BY <1>2 DEF Destroy, Fitting
<1>4. /\ NoArena \in Arenas /\ NoArena.head = null /\ [length |-> 0, next |-> null] \in ArenaChunks
  BY DEF NoArena, Arenas, ArenaChunks, ChunkAddresses
<1>5. /\ arena'[t] = NoArena /\ blocks'[t] = {} /\ marks'[t] = <<>>
      /\ arena' \in [Threads -> Arenas] /\ blocks' \in [Threads -> SUBSET Blocks]
      /\ \A u \in Threads \ {t} : UNCHANGED <<arena[u], marks[u], blocks[u]>>
  BY <1>1, <1>3, <1>4 DEF IInv, Fields
<1>6. /\ chunk' \in [Chunks -> ArenaChunks] /\ malloced' \subseteq Chunks
      /\ \A d \in Chunks : d # c => chunk'[d] = chunk[d]
  BY <1>3, <1>4 DEF IInv, Fields
<1>7. Fields'
  BY <1>3, <1>5, <1>6 DEF IInv, Fields
<1>8. ~has_arena(t)'
  BY <1>4, <1>5 DEF has_arena
<1>9. Sound(t)'
  BY <1>5, <1>8 DEF Sound, ArenaSound
<1>10. ASSUME NEW u \in Threads \ {t} PROVE Untouched(u)
  <2>1. ASSUME NEW d \in Chunks, Has(u, d) PROVE d # c /\ d \in malloced
    BY <1>2, <1>10, <2>1, InMemory DEF IInv, ChunkOwners
  <2> HIDE DEF c
  <2> QED
    BY <1>3, <1>5, <1>6, <2>1 DEF Untouched
<1>11. \A d \in Chunks : ~Has(t, d)'
  BY <1>8 DEF Has
<1> QED
  BY <1>7, <1>9, <1>10, <1>11, StepKeeps

(* The pools are empty.                                                    *)
LEMMA CleanKeeps == IInv /\ Clean => IInv'
<1> SUFFICES ASSUME IInv, Clean PROVE IInv'
  OBVIOUS
<1>1. Pooled = {}
  BY DEF Pooled, IInv, Fields
<1>2. UNCHANGED <<chunk, malloced, arena, marks, blocks, pool>>
  BY <1>1 DEF Clean
<1>3. Fields'
  BY <1>2 DEF IInv, Fields
<1>4. ASSUME NEW u \in Threads PROVE Untouched(u)
  BY <1>2, InMemory DEF Untouched
<1>5. ChunkOwners'
  BY <1>4, UntouchedSound DEF IInv, ChunkOwners
<1> QED
  BY <1>3, <1>4, <1>5, UntouchedSound DEF IInv

LEMMA InitIInv == Init => IInv
<1> SUFFICES ASSUME Init PROVE IInv
  OBVIOUS
<1>1. /\ \A t \in Threads : arena[t] = NoArena /\ marks[t] = <<>> /\ blocks[t] = {}
      /\ arena \in [Threads -> Arenas] /\ blocks \in [Threads -> SUBSET Blocks]
      /\ chunk \in [Chunks -> ArenaChunks] /\ malloced \subseteq Chunks
      /\ pool = [n \in PooledWords |-> <<>>]
  BY DEF Init, NoArena, Arenas, ArenaChunks, ChunkAddresses
<1>2. marks \in [Threads -> Seq(Arenas)]
  BY DEF Init
<1>3. \A t \in Threads : ~has_arena(t)
  BY <1>1 DEF has_arena, NoArena
<1>4. \A t \in Threads : Sound(t)
  BY <1>1, <1>3 DEF Sound, ArenaSound
<1>5. ChunkOwners
  BY <1>3 DEF ChunkOwners, Has
<1> QED
  BY <1>1, <1>2, <1>4, <1>5 DEF IInv, Fields

LEMMA Inductive == Fitting /\ IInv /\ [Next]_vars => IInv'
<1> SUFFICES ASSUME Fitting, IInv, [Next]_vars PROVE IInv'
  OBVIOUS
<1>1. CASE UNCHANGED vars
  <2>1. UNCHANGED <<chunk, malloced, arena, marks, blocks, pool>>
    BY <1>1 DEF vars
  <2>2. ASSUME NEW u \in Threads PROVE Untouched(u)
    BY <2>1, InMemory DEF Untouched
  <2> QED
    BY <2>1, <2>2, UntouchedSound DEF IInv, Fields, ChunkOwners
<1>2. CASE Clean
  BY <1>2, CleanKeeps
<1>3. ASSUME NEW t \in Threads,
             \/ \E c \in Chunks : Create(t, c)
             \/ \E n \in Requests :
                   Alloc(t, n) \/ \E c \in Chunks : AllocInNewChunk(t, n, c)
             \/ \E b \in blocks[t] : Free(t, b)
             \/ Mark(t) \/ Rollback(t) \/ Destroy(t)
      PROVE  IInv'
  BY <1>3, CreateKeeps, AllocKeeps, AllocInNewChunkKeeps, FreeKeeps, MarkKeeps, RollbackKeeps,
     DestroyKeeps
<1> QED
  BY <1>1, <1>2, <1>3 DEF Next

(* The blocks in use of all threads lie in memory malloc gave, apart from  *)
(* one another and below the top of their arena, however allocations,      *)
(* frees, marks and rollbacks follow each other (Arena.cpp:72-125, 165-182)*)
(* as long as no request fills a new chunk beyond its end (Arena.cpp:80)   *)
(* and the pools, whose purge frees what is in use (ArenaChunkPool.cpp:41),*)
(* are not reached.                                                        *)
THEOREM BlocksLieApart == Fitting => (Spec => []BlocksSound)
<1>1. SUFFICES ASSUME Fitting PROVE Spec => []BlocksSound
  OBVIOUS
<1>2. IInv /\ [Next]_vars => IInv'
  BY <1>1, Inductive
<1> QED
  BY <1>2, IInvSound, InitIInv, PTL DEF Spec

-----------------------------------------------------------------------------
(* Sequences: a function on 1..n is one, and what is left of a sequence    *)
(* when one place is taken out or filled in.                               *)

LEMMA FunctionIsSeq ==
    ASSUME NEW S, NEW n \in Nat, NEW f \in [1..n -> S]
    PROVE  f \in Seq(S) /\ Len(f) = n
OBVIOUS

LEMMA TakenOut ==
    ASSUME NEW S, NEW s \in Seq(S), NEW i \in 1..Len(s), NEW r,
           r = SubSeq(s, 1, i - 1) \o SubSeq(s, i + 1, Len(s))
    PROVE  /\ r \in Seq(S) /\ Len(r) = Len(s) - 1
           /\ \A j \in 1..(Len(s) - 1) : r[j] = IF j < i THEN s[j] ELSE s[j + 1]
<1> DEFINE a == SubSeq(s, 1, i - 1)
           b == SubSeq(s, i + 1, Len(s))
<1>1. Len(s) \in Nat /\ i \in Int /\ \A k \in 1..Len(s) : s[k] \in S
  OBVIOUS
<1>2. \A k \in 1..(i - 1) : s[k] \in S
  BY <1>1
<1>3. a \in Seq(S) /\ Len(a) = i - 1 /\ \A j \in 1..(i - 1) : a[j] = s[j]
  <2>1. /\ a \in Seq(S) /\ Len(a) = IF 1 <= i - 1 THEN (i - 1) - 1 + 1 ELSE 0
        /\ \A j \in 1..((i - 1) - 1 + 1) : a[j] = s[1 + j - 1]
    BY <1>1, <1>2, SubSeqProperties
  <2> QED BY <1>1, <2>1
<1>4. \A k \in (i + 1)..Len(s) : s[k] \in S
  BY <1>1
<1>5. /\ b \in Seq(S) /\ Len(b) = Len(s) - i
      /\ \A j \in 1..(Len(s) - i) : b[j] = s[i + j]
  <2>1. /\ b \in Seq(S) /\ Len(b) = IF i + 1 <= Len(s) THEN Len(s) - (i + 1) + 1 ELSE 0
        /\ \A j \in 1..(Len(s) - (i + 1) + 1) : b[j] = s[(i + 1) + j - 1]
    BY <1>1, <1>4, SubSeqProperties
  <2> QED BY <1>1, <2>1
<1> HIDE DEF a, b
<1>6. /\ a \o b \in Seq(S) /\ Len(a \o b) = Len(a) + Len(b)
      /\ \A j \in 1..(Len(a) + Len(b)) : (a \o b)[j] = IF j <= Len(a) THEN a[j] ELSE b[j - Len(a)]
  BY <1>3, <1>5, ConcatProperties
<1>7. r = a \o b
  BY DEF a, b
<1>8. r \in Seq(S) /\ Len(r) = Len(s) - 1
  <2>1. r \in Seq(S) /\ Len(r) = Len(a) + Len(b)
    BY <1>6, <1>7, Zenon
  <2>2. Len(a) + Len(b) = Len(s) - 1
    BY <1>1, <1>3, <1>5
  <2> QED BY <2>1, <2>2, Zenon
<1>9. ASSUME NEW j \in 1..(Len(s) - 1)
      PROVE  r[j] = IF j < i THEN s[j] ELSE s[j + 1]
  <2>1. j \in 1..(Len(a) + Len(b))
    BY <1>1, <1>3, <1>5
  <2>2. r[j] = IF j <= i - 1 THEN a[j] ELSE b[j - (i - 1)]
    BY <1>3, <1>6, <1>7, <2>1
  <2>3. CASE j < i
    <3>1. j \in 1..(i - 1) /\ j <= i - 1
      BY <1>1, <2>3
    <3>2. a[j] = s[j]
      BY <1>3, <3>1, Zenon
    <3> QED BY <2>2, <2>3, <3>1, <3>2, Zenon
  <2>4. CASE ~(j < i)
    <3>1. j - (i - 1) \in 1..(Len(s) - i) /\ i + (j - (i - 1)) = j + 1 /\ ~(j <= i - 1)
      BY <1>1, <2>4
    <3>2. b[j - (i - 1)] = s[i + (j - (i - 1))]
      BY <1>5, <3>1
    <3> QED BY <2>2, <2>4, <3>1, <3>2
  <2> QED BY <2>3, <2>4
<1> QED
  BY <1>8, <1>9

-----------------------------------------------------------------------------
(* Numbers.                                                                *)

LEMMA LeastElement ==
    ASSUME NEW T \in SUBSET Nat, NEW x \in T
    PROVE  \E m \in T : \A k \in T : m <= k
<1> DEFINE R == {ss \in Nat \X Nat : ss[1] < ss[2]}
<1>1. IsWellFoundedOn(R, Nat)
  BY NatLessThanWellFounded DEF OpToRel
<1>2. PICK m \in T : \A y \in T : ~(<<y, m>> \in R)
  <2> HIDE DEF R
  <2> QED BY <1>1, WFMin
<1>3. ASSUME NEW k \in T PROVE m <= k
  <2>1. <<k, m>> \in Nat \X Nat /\ (k < m => <<k, m>> \in R)
    OBVIOUS
  <2>2. ~(k < m)
    BY <1>2, <2>1, Zenon
  <2> QED
    BY <2>2, SMT
<1> QED
  BY <1>3

(* An odd divisor of twice q divides q.                                    *)
LEMMA OddDivisor ==
    ASSUME NEW q \in Nat, NEW d \in Nat \ {0}, d % 2 # 0, (2 * q) % d = 0
    PROVE  q % d = 0
<1>1. PICK k \in Nat : 2 * q = d * k
  OBVIOUS
<1>2. PICK a \in Nat : d = 2 * a + 1
  OBVIOUS
<1>3. d * k = 2 * (a * k) + k /\ a * k \in Nat
  BY <1>2
<1>4. PICK j \in Nat : k = 2 * j
  <2>1. k = 2 * (q - a * k) /\ q - a * k \in Int
    BY <1>1, <1>3
  <2>2. q - a * k >= 0
    BY <2>1
  <2> QED BY <2>1, <2>2
<1>5. q = d * j
  BY <1>1, <1>4
<1> QED
  BY <1>5

LEMMA PowerDoubled ==
    ASSUME NEW q \in Nat, Array!is_power_of_2(q)
    PROVE  Array!is_power_of_2(2 * q)
<1>1. q > 0
  BY DEF Array!is_power_of_2
<1>2. ASSUME NEW d \in 2..(2 * q), (2 * q) % d = 0, d % 2 # 0
      PROVE  FALSE
  <2>1. d \in Nat \ {0}
    OBVIOUS
  <2>2. q % d = 0
    BY <1>2, <2>1, OddDivisor
  <2>3. d <= q
    BY <1>1, <2>1, <2>2
  <2> QED
    BY <1>2, <2>2, <2>3 DEF Array!is_power_of_2
<1> QED
  BY <1>1, <1>2 DEF Array!is_power_of_2

LEMMA PowerAbove ==
    ASSUME NEW n \in Nat \ {0}
    PROVE  \E p \in n..(2 * n - 1) : Array!is_power_of_2(p)
<1> DEFINE Above(i) == \E p \in i..(2 * i - 1) : Array!is_power_of_2(p)
           T == {i \in Nat \ {0} : ~Above(i)}
<1> SUFFICES ASSUME n \in T PROVE FALSE
  OBVIOUS
<1>1. PICK i \in T : \A k \in T : i <= k
  <2> T \in SUBSET Nat
    OBVIOUS
  <2> HIDE DEF T
  <2> QED BY LeastElement
<1>2. i # 1
  <2>1. Array!is_power_of_2(1)
    BY DEF Array!is_power_of_2
  <2>2. Above(1)
    BY <2>1
  <2> QED BY <2>2
<1> DEFINE m == (i + 1) \div 2
<1>3. i \in Nat /\ i > 1 /\ m \in Nat \ {0} /\ m < i /\ (2 * m = i \/ 2 * m = i + 1)
  BY <1>2
<1>4. Above(m)
  <2> HIDE DEF m, Above
  <2>1. m \notin T
    BY <1>1, <1>3
  <2> QED BY <1>3, <2>1
<1>5. PICK q \in m..(2 * m - 1) : Array!is_power_of_2(q)
  BY <1>4
<1> HIDE DEF m
<1>6. q \in Nat /\ Array!is_power_of_2(2 * q)
  BY <1>3, <1>5, PowerDoubled
<1>7. CASE q = i
  <2>1. q \in i..(2 * i - 1)
    BY <1>3, <1>7
  <2> QED BY <1>5, <2>1
<1>8. CASE q # i
  <2>1. 2 * q \in i..(2 * i - 1)
    BY <1>3, <1>5, <1>8
  <2> QED BY <1>6, <2>1
<1> QED
  BY <1>7, <1>8

LEMMA RoundedUp ==
    ASSUME NEW n \in Nat \ {0}
    PROVE  Array!round_up_power_of_2(n) \in n..(2 * n - 1)
BY PowerAbove DEF Array!round_up_power_of_2

-----------------------------------------------------------------------------
(* The array: its first places are the elements put into it.               *)

ArrayInv ==
    /\ _data \in Seq(Elements) /\ Len(_data) > 0 /\ _len \in 0..Len(_data)
    /\ elements \in Seq(Elements) /\ Len(elements) = _len
    /\ \A i \in 1.._len : _data[i] = elements[i]

LEMMA ArrayInvKept == ArrayInv => ElementsKept
<1> SUFFICES ASSUME ArrayInv PROVE SubSeq(_data, 1, _len) = elements
  BY DEF ElementsKept, Array!ElementsKept
<1>1. _data \in Seq(Elements) /\ _len \in Nat /\ _len <= Len(_data) /\ elements \in Seq(Elements)
  BY DEF ArrayInv
<1>2. /\ SubSeq(_data, 1, _len) \in Seq(Elements)
      /\ Len(SubSeq(_data, 1, _len)) = _len
      /\ \A i \in 1.._len : SubSeq(_data, 1, _len)[i] = _data[i]
  BY <1>1
<1> QED
  BY <1>1, <1>2, SeqEqual DEF ArrayInv

LEMMA ArrayInit == Array!Init => ArrayInv
<1> SUFFICES ASSUME Array!Init PROVE ArrayInv
  OBVIOUS
<1>1. PICK n \in 1..MaxCapacity : _data \in [1..n -> Elements]
  BY DEF Array!Init
<1>2. n \in Nat /\ n > 0 /\ _data \in Seq(Elements) /\ Len(_data) = n
  BY <1>1, FunctionIsSeq, ContainersAssumption
<1>3. _len = 0 /\ elements = <<>>
  BY DEF Array!Init
<1> QED
  BY <1>2, <1>3 DEF ArrayInv

(* One more element in the place behind the last.                          *)
LEMMA ElementAdded ==
    ASSUME ArrayInv, NEW e \in Elements, NEW n \in Nat, _len < n,
           _data' \in [1..n -> Elements],
           \A i \in 1.._len : _data'[i] = _data[i],
           _data'[_len + 1] = e, _len' = _len + 1, elements' = Append(elements, e)
    PROVE  ArrayInv'
<1>1. _len \in Nat /\ elements \in Seq(Elements) /\ Len(elements) = _len
  BY DEF ArrayInv
<1>2. _data' \in Seq(Elements) /\ Len(_data') = n
  BY FunctionIsSeq
<1>3. /\ elements' \in Seq(Elements) /\ Len(elements') = _len + 1
      /\ \A i \in 1.._len : elements'[i] = elements[i]
      /\ elements'[_len + 1] = e
  BY <1>1, AppendProperties
<1>4. \A i \in 1..(_len + 1) : _data'[i] = elements'[i]
  BY <1>1, <1>3 DEF ArrayInv
<1> QED
  BY <1>1, <1>2, <1>3, <1>4 DEF ArrayInv

LEMMA ArrayStep == ArrayInv /\ [Array!Next]_(Array!vars) => ArrayInv'
<1> SUFFICES ASSUME ArrayInv, [Array!Next]_(Array!vars) PROVE ArrayInv'
  OBVIOUS
<1> DEFINE capacity == Len(_data)
<1>1. /\ _len \in Nat /\ capacity \in Nat /\ _len <= capacity /\ _data \in [1..capacity -> Elements]
      /\ elements \in Seq(Elements) /\ Len(elements) = _len
      /\ \A i \in 1.._len : _data[i] = elements[i] /\ _data[i] \in Elements
  BY DEF ArrayInv
<1>2. Array!_capacity = capacity
  BY DEF Array!_capacity
<1>3. ASSUME NEW e \in Elements, _len # capacity,
             _data' = Array!Stored(e), _len' = _len + 1, elements' = Append(elements, e)
      PROVE  ArrayInv'
  <2>1. _len \in Nat /\ capacity \in Nat /\ _len <= capacity /\ _len # capacity
    BY <1>1, <1>3
  <2> HIDE DEF capacity
  <2>2. _len + 1 \in 1..capacity /\ _len < capacity
    BY <2>1
  <2>3. /\ _data' \in [1..capacity -> Elements]
        /\ _data'[_len + 1] = e /\ \A i \in 1.._len : _data'[i] = _data[i]
    BY <1>1, <1>3, <2>2 DEF Array!Stored
  <2> QED
    BY <1>1, <1>3, <2>2, <2>3, ElementAdded
<1>4. ASSUME NEW e \in Elements, Array!push(e) PROVE ArrayInv'
  <2>1. CASE _len = capacity
    BY <1>2, <1>4, <2>1 DEF Array!push, ArrayInv
  <2>2. CASE _len # capacity
    <3>1. _data' = Array!Stored(e) /\ _len' = _len + 1 /\ elements' = Append(elements, e)
      BY <1>2, <1>4, <2>2 DEF Array!push
    <3> QED BY <1>3, <2>2, <3>1
  <2> QED BY <2>1, <2>2
<1>5. ASSUME NEW e \in Elements, Array!append(e) PROVE ArrayInv'
  <2> DEFINE n == Array!round_up_power_of_2(Array!_capacity)
  <2>1. CASE /\ _len < capacity
             /\ _data' = Array!Stored(e) /\ _len' = _len + 1 /\ elements' = Append(elements, e)
    <3>1. _len # capacity
      <4>1. _len \in Nat /\ capacity \in Nat
        BY <1>1
      <4>2. _len < capacity
        BY <2>1
      <4> HIDE DEF capacity
      <4> QED BY ONLY <4>1, <4>2
    <3> QED BY ONLY <1>3, <2>1, <3>1
  <2>2. CASE UNCHANGED <<_data, _len, elements>>
    BY <2>2 DEF ArrayInv
  <2>3. CASE /\ _len = capacity /\ n > capacity
             /\ \E memory \in [1..n -> Elements] : _data' = Array!Copied(e, memory)
             /\ _len' = _len + 1 /\ elements' = Append(elements, e)
    <3>1. PICK memory \in [1..n -> Elements] : _data' = Array!Copied(e, memory)
      BY <2>3
    <3>2. n \in Nat
      <4>1. capacity \in Nat \ {0}
        BY DEF ArrayInv
      <4> QED BY <1>2, <4>1, RoundedUp
    <3>3. _len' = _len + 1 /\ elements' = Append(elements, e) /\ _len < n
      BY <1>1, <2>3, <3>2
    <3> HIDE DEF n
    <3>4. _data' = [i \in 1..n |-> IF i <= _len THEN _data[i]
                                   ELSE IF i = _len + 1 THEN e ELSE memory[i]]
      BY <3>1 DEF Array!Copied
    <3>5. _len + 1 \in 1..n /\ \A i \in 1.._len : i \in 1..n
      BY <1>1, <3>2, <3>3
    <3>6. _data' \in [1..n -> Elements]
      BY <1>1, <3>1, <3>2, <3>4
    <3>7. (\A i \in 1.._len : _data'[i] = _data[i]) /\ _data'[_len + 1] = e
      BY <1>1, <3>4, <3>5
    <3> QED
      BY <3>2, <3>3, <3>6, <3>7, ElementAdded
  <2> QED BY <1>2, <1>5, <2>1, <2>2, <2>3 DEF Array!append
<1>6. ASSUME Array!pop PROVE ArrayInv'
  <2>1. _len > 0 /\ _len' = _len - 1 /\ _data' = _data
        /\ elements' = SubSeq(elements, 1, Len(elements) - 1)
    BY <1>6 DEF Array!pop
  <2>2. /\ elements' \in Seq(Elements) /\ Len(elements') = _len - 1
        /\ \A i \in 1..(_len - 1) : elements'[i] = elements[i]
    BY <1>1, <2>1
  <2> QED
    BY <1>1, <2>1, <2>2 DEF ArrayInv
<1>7. ASSUME NEW i \in 1.._len, Array!remove_at(i) PROVE ArrayInv'
  <2>1. /\ _data' = [j \in 1..capacity |-> IF i <= j /\ j < _len THEN _data[j + 1] ELSE _data[j]]
        /\ _len' = _len - 1
        /\ elements' = SubSeq(elements, 1, i - 1) \o SubSeq(elements, i + 1, Len(elements))
    BY <1>2, <1>7 DEF Array!remove_at
  <2>2. /\ elements' \in Seq(Elements) /\ Len(elements') = _len - 1
        /\ \A j \in 1..(_len - 1) : elements'[j] = IF j < i THEN elements[j] ELSE elements[j + 1]
    BY <1>1, <2>1, TakenOut
  <2>3. _data' \in [1..capacity -> Elements]
    BY <1>1, <2>1
  <2>4. _data' \in Seq(Elements) /\ Len(_data') = capacity
    BY <1>1, <2>3, FunctionIsSeq
  <2>5. ASSUME NEW j \in 1..(_len - 1) PROVE _data'[j] = elements'[j]
    <3>1. j \in 1.._len /\ j + 1 \in 1.._len /\ j \in 1..capacity /\ j < _len
      BY <1>1
    <3>2. _data'[j] = IF i <= j THEN _data[j + 1] ELSE _data[j]
      BY <2>1, <3>1
    <3>3. elements'[j] = IF j < i THEN elements[j] ELSE elements[j + 1]
      BY <2>2
    <3> QED BY <1>1, <3>1, <3>2, <3>3
  <2> QED
    BY <1>1, <2>1, <2>2, <2>4, <2>5 DEF ArrayInv
<1>8. CASE UNCHANGED Array!vars
  BY <1>8 DEF Array!vars, ArrayInv
<1> QED
  BY <1>4, <1>5, <1>6, <1>7, <1>8 DEF Array!Next

(* An array keeps what it accepts, whatever its capacity and its elements, *)
(* with assertions and without, also as it moves to a larger memory: what a*)
(* full array does not take is no part of it (GrowableArray.hpp:136, 145,  *)
(* 158, 213).                                                              *)
THEOREM ArrayKeepsElements == Array!Spec => []ElementsKept
<1>1. Array!Spec => []ArrayInv
  BY ArrayInit, ArrayStep, PTL DEF Array!Spec
<1> QED
  BY <1>1, ArrayInvKept, PTL

-----------------------------------------------------------------------------
(* The list: its pointers are those of a sequence of nodes.                *)

LEMMA SameCardinality == \A S : List!Cardinality(S) = Cardinality(S)
BY DEF List!Cardinality, Cardinality

(* The node at place i of the list s, null beyond its ends.                *)
At(s, i) == IF i \in 1..Len(s) THEN s[i] ELSE null

EachOnce(s) == \A i, j \in 1..Len(s) : s[i] = s[j] => i = j

(* From p the links lead along s.                                          *)
Path(s, p, link) == p = At(s, 1) /\ \A i \in 1..Len(s) : link[s[i]] = At(s, i + 1)

(* A visit sees the nodes along which the links lead.                      *)
LEMMA VisitPath ==
    ASSUME NEW s \in Seq(Nodes), NEW p, NEW link, EachOnce(s), Path(s, p, link)
    PROVE  List!Visit(p, link) = s
<1> DEFINE N == List!Cardinality(Nodes)
           Follows(g) == g = [i \in 0..N |-> IF i = 0 THEN p
                                ELSE IF g[i - 1] = null THEN null ELSE link[g[i - 1]]]
           f == [i \in 0..N |-> At(s, i + 1)]
           g == CHOOSE g : Follows(g)
<1>1. N \in Nat /\ Len(s) \in Nat /\ Len(s) <= N
  <2>1. s \in Injection(1..Len(s), Nodes)
    BY DEF Injection, IsInjective, EachOnce
  <2>2. Cardinality(1..Len(s)) = Len(s) /\ Len(s) \in Nat
    BY FS_Interval
  <2>3. Cardinality(1..Len(s)) <= Cardinality(Nodes)
    BY <2>1, FS_Injection, ContainersAssumption
  <2> QED
    BY <2>2, <2>3, SameCardinality, FS_CardinalityType, ContainersAssumption
<1> HIDE DEF N
<1>2. Follows(f)
  <2>1. ASSUME NEW i \in 0..N
        PROVE  f[i] = IF i = 0 THEN p ELSE IF f[i - 1] = null THEN null ELSE link[f[i - 1]]
    <3>1. CASE i = 0
      BY <1>1, <3>1 DEF Path
    <3>2. CASE i # 0 /\ i \in 1..Len(s)
      <4>1. i - 1 \in 0..N /\ f[i - 1] = At(s, i) /\ f[i] = At(s, i + 1)
        BY <1>1, <3>2
      <4>2. At(s, i) = s[i] /\ s[i] # null /\ link[s[i]] = At(s, i + 1)
        BY <3>2, ContainersAssumption DEF At, Path
      <4> QED BY <3>2, <4>1, <4>2
    <3>3. CASE i # 0 /\ i \notin 1..Len(s)
      <4>1. i - 1 \in 0..N /\ f[i - 1] = At(s, i) /\ f[i] = At(s, i + 1)
        BY <1>1, <3>3
      <4>2. At(s, i) = null /\ At(s, i + 1) = null
        BY <1>1, <3>3 DEF At
      <4> QED BY <3>3, <4>1, <4>2
    <3> QED BY <3>1, <3>2, <3>3
  <2> QED BY <2>1
<1>3. Follows(g)
  <2> HIDE DEF Follows
  <2> QED BY <1>2
<1>4. ASSUME NEW i \in 0..N PROVE g[i] = f[i]
  <2> DEFINE T == {k \in 0..N : g[k] # f[k]}
  <2> SUFFICES ASSUME i \in T PROVE FALSE
    OBVIOUS
  <2>1. PICK k \in T : \A l \in T : k <= l
    <3> T \in SUBSET Nat
      BY <1>1
    <3> HIDE DEF T
    <3> QED BY LeastElement
  <2> HIDE DEF f, g
  <2>2. k = 0 \/ k - 1 \in 0..N
    BY <1>1, <2>1
  <2>3. k # 0 => g[k - 1] = f[k - 1]
    BY <1>1, <2>1, <2>2
  <2>4. k \in 0..N /\ g[k] # f[k]
    BY <2>1
  <2>5. ASSUME NEW h, Follows(h)
        PROVE  h[k] = IF k = 0 THEN p ELSE IF h[k - 1] = null THEN null ELSE link[h[k - 1]]
    BY <2>4, <2>5
  <2>6. /\ f[k] = IF k = 0 THEN p ELSE IF f[k - 1] = null THEN null ELSE link[f[k - 1]]
        /\ g[k] = IF k = 0 THEN p ELSE IF g[k - 1] = null THEN null ELSE link[g[k - 1]]
    <3> HIDE DEF Follows
    <3> QED BY <1>2, <1>3, <2>5
  <2> QED BY <2>3, <2>4, <2>6
<1>5. List!Visit(p, link) = [i \in {j \in 1..N : g[j - 1] # null} |-> g[i - 1]]
  BY DEF List!Visit, N
<1> HIDE DEF g
<1>6. ASSUME NEW i \in 1..N PROVE g[i - 1] = At(s, i)
  <2>1. i - 1 \in 0..N /\ (i - 1) + 1 = i
    BY <1>1
  <2> QED BY <1>4, <2>1
<1>7. {j \in 1..N : g[j - 1] # null} = 1..Len(s)
  <2>1. ASSUME NEW j \in 1..N PROVE g[j - 1] # null <=> j \in 1..Len(s)
    <3>1. j \in 1..Len(s) => s[j] # null
      BY ContainersAssumption
    <3> QED BY <1>6, <3>1 DEF At
  <2>2. 1..Len(s) \subseteq 1..N
    BY <1>1
  <2> QED BY <2>1, <2>2
<1>8. [i \in 1..Len(s) |-> g[i - 1]] = [i \in 1..Len(s) |-> s[i]]
  BY <1>1, <1>6 DEF At
<1>9. [i \in 1..Len(s) |-> s[i]] = s
  BY <1>1
<1> QED
  BY <1>5, <1>7, <1>8, <1>9

Backwards(s) == [i \in 1..Len(s) |-> s[Len(s) + 1 - i]]

ListOf(s, head, tail, next, prev) ==
    /\ EachOnce(s) /\ head = At(s, 1) /\ tail = At(s, Len(s))
    /\ \A i \in 1..Len(s) : next[s[i]] = At(s, i + 1) /\ prev[s[i]] = At(s, i - 1)
ListIs(s) == ListOf(s, _head, _tail, _next, _prev)

Links == [Nodes -> Nodes \cup {null}]
ListInv == _next \in Links /\ _prev \in Links /\ \E s \in Seq(Nodes) : ListIs(s)

LEMMA AtType ==
    ASSUME NEW s \in Seq(Nodes), NEW i \in Int
    PROVE  /\ At(s, i) \in Nodes \cup {null}
           /\ At(s, i) = null <=> i \notin 1..Len(s)
           /\ i \in 1..Len(s) => At(s, i) = s[i] /\ s[i] \in Nodes
BY ContainersAssumption DEF At

LEMMA BackwardsAt ==
    ASSUME NEW s \in Seq(Nodes)
    PROVE  /\ Backwards(s) \in Seq(Nodes) /\ Len(Backwards(s)) = Len(s)
           /\ \A i \in Int : At(Backwards(s), i) = At(s, Len(s) + 1 - i)
<1>1. Len(s) \in Nat /\ \A i \in 1..Len(s) : Len(s) + 1 - i \in 1..Len(s) /\ s[Len(s) + 1 - i] \in Nodes
  OBVIOUS
<1>2. Backwards(s) \in [1..Len(s) -> Nodes]
  BY <1>1 DEF Backwards
<1>3. Backwards(s) \in Seq(Nodes) /\ Len(Backwards(s)) = Len(s)
  BY <1>1, <1>2, FunctionIsSeq
<1>4. ASSUME NEW i \in Int PROVE At(Backwards(s), i) = At(s, Len(s) + 1 - i)
  <2>1. CASE i \in 1..Len(s)
    BY <1>1, <1>3, <2>1 DEF At, Backwards
  <2>2. CASE i \notin 1..Len(s)
    <3>1. Len(s) + 1 - i \notin 1..Len(s)
      BY <1>1, <2>2
    <3> QED BY <1>3, <2>2, <3>1 DEF At
  <2> QED BY <2>1, <2>2
<1> QED
  BY <1>3, <1>4

(* What the two visits see.                                                *)
LEMMA VisitsOf ==
    ASSUME NEW s \in Seq(Nodes), NEW head, NEW tail, NEW next, NEW prev,
           ListOf(s, head, tail, next, prev)
    PROVE  List!Visit(head, next) = s /\ List!Visit(tail, prev) = Backwards(s)
<1>1. List!Visit(head, next) = s
  BY VisitPath DEF ListOf, Path
<1>2. Len(s) \in Nat
  OBVIOUS
<1>3. /\ Backwards(s) \in Seq(Nodes) /\ Len(Backwards(s)) = Len(s)
      /\ \A i \in Int : At(Backwards(s), i) = At(s, Len(s) + 1 - i)
  BY BackwardsAt
<1>4. EachOnce(Backwards(s))
  <2> SUFFICES ASSUME NEW i \in 1..Len(s), NEW j \in 1..Len(s), Backwards(s)[i] = Backwards(s)[j]
               PROVE  i = j
    BY <1>3 DEF EachOnce
  <2>1. s[Len(s) + 1 - i] = s[Len(s) + 1 - j]
    BY DEF Backwards
  <2>2. Len(s) + 1 - i \in 1..Len(s) /\ Len(s) + 1 - j \in 1..Len(s)
    BY <1>2
  <2>3. Len(s) + 1 - i = Len(s) + 1 - j
    BY <2>1, <2>2 DEF ListOf, EachOnce
  <2> QED BY <1>2, <2>3
<1>5. Path(Backwards(s), tail, prev)
  <2>1. tail = At(Backwards(s), 1)
    BY <1>2, <1>3 DEF ListOf
  <2>2. ASSUME NEW i \in 1..Len(s)
        PROVE  prev[Backwards(s)[i]] = At(Backwards(s), i + 1)
    <3>1. Len(s) + 1 - i \in 1..Len(s) /\ Backwards(s)[i] = s[Len(s) + 1 - i]
      BY <1>2 DEF Backwards
    <3>2. prev[Backwards(s)[i]] = At(s, (Len(s) + 1 - i) - 1)
      BY <3>1 DEF ListOf
    <3>3. At(Backwards(s), i + 1) = At(s, Len(s) + 1 - (i + 1))
      BY <1>3
    <3>4. (Len(s) + 1 - i) - 1 = Len(s) + 1 - (i + 1)
      BY <1>2
    <3> QED BY <3>2, <3>3, <3>4
  <2> QED BY <1>3, <2>1, <2>2 DEF Path
<1>6. List!Visit(tail, prev) = Backwards(s)
  BY <1>3, <1>4, <1>5, VisitPath
<1> QED
  BY <1>1, <1>6

LEMMA ListVisits ==
    ASSUME NEW s \in Seq(Nodes), ListIs(s)
    PROVE  List!Visit(_head, _next) = s /\ List!Visit(_tail, _prev) = Backwards(s)
BY VisitsOf DEF ListIs

LEMMA ListVisitsPrimed ==
    ASSUME NEW s \in Seq(Nodes), ListIs(s)'
    PROVE  List!Visit(_head', _next') = s /\ List!Visit(_tail', _prev') = Backwards(s)
BY VisitsOf DEF ListIs

LEMMA ListContains ==
    ASSUME NEW s \in Seq(Nodes), ListIs(s), NEW n
    PROVE  List!contain(n) <=> \E i \in 1..Len(s) : s[i] = n
BY ListVisits DEF List!contain

(* A node put into place k, and the node taken out of it.                  *)
LEMMA Inserted ==
    ASSUME NEW s \in Seq(Nodes), NEW n \in Nodes, NEW k \in 1..(Len(s) + 1), NEW r,
           r = List!Abstract!InsertAt(s, k, n)
    PROVE  /\ r \in Seq(Nodes) /\ Len(r) = Len(s) + 1
           /\ \A i \in Int : At(r, i) = IF i < k THEN At(s, i) ELSE IF i = k THEN n ELSE At(s, i - 1)
<1> DEFINE a == SubSeq(s, 1, k - 1)
           c == SubSeq(s, k, Len(s))
<1>1. Len(s) \in Nat /\ k \in Int /\ \A i \in 1..Len(s) : s[i] \in Nodes
  OBVIOUS
<1>2. a \in Seq(Nodes) /\ Len(a) = k - 1 /\ \A j \in 1..(k - 1) : a[j] = s[j]
  <2>1. \A i \in 1..(k - 1) : s[i] \in Nodes
    BY <1>1
  <2>2. /\ a \in Seq(Nodes) /\ Len(a) = IF 1 <= k - 1 THEN (k - 1) - 1 + 1 ELSE 0
        /\ \A j \in 1..((k - 1) - 1 + 1) : a[j] = s[1 + j - 1]
    BY <1>1, <2>1, SubSeqProperties
  <2> QED BY <1>1, <2>2
<1>3. /\ c \in Seq(Nodes) /\ Len(c) = Len(s) + 1 - k
      /\ \A j \in 1..(Len(s) + 1 - k) : c[j] = s[k + j - 1]
  <2>1. \A i \in k..Len(s) : s[i] \in Nodes
    BY <1>1
  <2>2. /\ c \in Seq(Nodes) /\ Len(c) = IF k <= Len(s) THEN Len(s) - k + 1 ELSE 0
        /\ \A j \in 1..(Len(s) - k + 1) : c[j] = s[k + j - 1]
    BY <1>1, <2>1, SubSeqProperties
  <2> QED BY <1>1, <2>2
<1>4. r = (a \o <<n>>) \o c
  BY DEF List!Abstract!InsertAt
<1> HIDE DEF a, c
<1> DEFINE b == a \o <<n>>
<1>5. /\ b \in Seq(Nodes) /\ Len(b) = k
      /\ \A j \in 1..(k - 1) : b[j] = s[j]
      /\ b[k] = n
  <2>1. <<n>> \in Seq(Nodes) /\ Len(<<n>>) = 1 /\ <<n>>[1] = n
    OBVIOUS
  <2>2. /\ b \in Seq(Nodes) /\ Len(b) = Len(a) + Len(<<n>>)
        /\ \A j \in 1..(Len(a) + Len(<<n>>)) :
             b[j] = IF j <= Len(a) THEN a[j] ELSE <<n>>[j - Len(a)]
    BY <1>2, <2>1, ConcatProperties
  <2>3. Len(a) + Len(<<n>>) = k /\ Len(a) = k - 1 /\ k - Len(a) = 1
    BY <1>1, <1>2, <2>1
  <2>4. \A j \in 1..k : b[j] = IF j <= k - 1 THEN a[j] ELSE <<n>>[j - Len(a)]
    BY <2>2, <2>3
  <2> QED BY <1>1, <1>2, <2>1, <2>2, <2>3, <2>4
<1>6. r = b \o c
  BY <1>4
<1> HIDE DEF b
<1>7. /\ r \in Seq(Nodes) /\ Len(r) = Len(b) + Len(c)
      /\ \A j \in 1..(Len(b) + Len(c)) : r[j] = IF j <= Len(b) THEN b[j] ELSE c[j - Len(b)]
  <2>1. /\ b \o c \in Seq(Nodes) /\ Len(b \o c) = Len(b) + Len(c)
        /\ \A j \in 1..(Len(b) + Len(c)) : (b \o c)[j] = IF j <= Len(b) THEN b[j] ELSE c[j - Len(b)]
    BY <1>3, <1>5, ConcatProperties
  <2> QED BY <1>6, <2>1, Zenon
<1>8. Len(r) = Len(s) + 1
  BY <1>1, <1>3, <1>5, <1>7
<1>9. \A j \in 1..(Len(s) + 1) : r[j] = IF j < k THEN s[j] ELSE IF j = k THEN n ELSE s[j - 1]
  <2> SUFFICES ASSUME NEW j \in 1..(Len(s) + 1)
               PROVE  r[j] = IF j < k THEN s[j] ELSE IF j = k THEN n ELSE s[j - 1]
    OBVIOUS
  <2>1. r[j] = IF j <= k THEN b[j] ELSE c[j - k]
    BY <1>5, <1>7, <1>8
  <2>2. CASE j < k
    BY <1>1, <1>5, <2>1, <2>2
  <2>3. CASE j = k
    BY <1>1, <1>5, <2>1, <2>3
  <2>4. CASE j > k
    <3>1. j - k \in 1..(Len(s) + 1 - k) /\ k + (j - k) - 1 = j - 1 /\ ~(j <= k)
      BY <1>1, <2>4
    <3>2. c[j - k] = s[k + (j - k) - 1]
      BY <1>3, <3>1
    <3> QED BY <2>1, <2>4, <3>1, <3>2
  <2> QED BY <1>1, <2>2, <2>3, <2>4
<1> QED
  BY <1>1, <1>7, <1>8, <1>9 DEF At

LEMMA Removed ==
    ASSUME NEW s \in Seq(Nodes), NEW k \in 1..Len(s), NEW r, r = List!Abstract!RemoveAt(s, k)
    PROVE  /\ r \in Seq(Nodes) /\ Len(r) = Len(s) - 1
           /\ \A i \in Int : At(r, i) = IF i < k THEN At(s, i) ELSE At(s, i + 1)
<1>1. r = SubSeq(s, 1, k - 1) \o SubSeq(s, k + 1, Len(s))
  BY DEF List!Abstract!RemoveAt
<1>2. /\ r \in Seq(Nodes) /\ Len(r) = Len(s) - 1
      /\ \A j \in 1..(Len(s) - 1) : r[j] = IF j < k THEN s[j] ELSE s[j + 1]
  <2> DEFINE q == SubSeq(s, 1, k - 1) \o SubSeq(s, k + 1, Len(s))
  <2>1. /\ q \in Seq(Nodes) /\ Len(q) = Len(s) - 1
        /\ \A j \in 1..(Len(s) - 1) : q[j] = IF j < k THEN s[j] ELSE s[j + 1]
    BY TakenOut
  <2> QED BY <1>1, <2>1, Zenon
<1> QED
  BY <1>2 DEF At

LEMMA SeqByAt ==
    ASSUME NEW s \in Seq(Nodes), NEW r \in Seq(Nodes), Len(s) = Len(r),
           \A i \in Int : At(s, i) = At(r, i)
    PROVE  s = r
<1>1. \A i \in 1..Len(s) : s[i] = r[i]
  BY DEF At
<1> QED
  BY <1>1, SeqEqual

(* n comes between a and b, or at an end of the list; n leaves from there. *)
SplicedIn(n, a, b) ==
    /\ _next' \in Links /\ _prev' \in Links
    /\ _head' = IF a = null THEN n ELSE _head
    /\ _tail' = IF b = null THEN n ELSE _tail
    /\ \A x \in Nodes : /\ _next'[x] = IF x = n THEN b ELSE IF x = a THEN n ELSE _next[x]
                        /\ _prev'[x] = IF x = n THEN a ELSE IF x = b THEN n ELSE _prev[x]

SplicedOut(n, a, b) ==
    /\ _next' \in Links /\ _prev' \in Links
    /\ _head' = IF a = null THEN b ELSE _head
    /\ _tail' = IF b = null THEN a ELSE _tail
    /\ \A x \in Nodes \ {n} : /\ _next'[x] = IF x = a THEN b ELSE _next[x]
                              /\ _prev'[x] = IF x = b THEN a ELSE _prev[x]

LEMMA ListByAt ==
    ASSUME NEW s \in Seq(Nodes), NEW head, NEW tail, NEW next, NEW prev
    PROVE  ListOf(s, head, tail, next, prev) <=>
             /\ \A i, j \in Int : At(s, i) = At(s, j) /\ At(s, i) # null => i = j
             /\ head = At(s, 1) /\ tail = At(s, Len(s))
             /\ \A i \in Int : At(s, i) # null =>
                  next[At(s, i)] = At(s, i + 1) /\ prev[At(s, i)] = At(s, i - 1)
<1>1. \A i \in Int : /\ At(s, i) # null <=> i \in 1..Len(s)
                     /\ i \in 1..Len(s) => At(s, i) = s[i]
  BY AtType
<1>2. \A i \in 1..Len(s) : i \in Int
  OBVIOUS
<1>3. EachOnce(s) <=> \A i, j \in Int : At(s, i) = At(s, j) /\ At(s, i) # null => i = j
  BY <1>1, <1>2, Zenon DEF EachOnce
<1>4. (\A i \in 1..Len(s) : next[s[i]] = At(s, i + 1) /\ prev[s[i]] = At(s, i - 1))
      <=> \A i \in Int : At(s, i) # null =>
             next[At(s, i)] = At(s, i + 1) /\ prev[At(s, i)] = At(s, i - 1)
  BY <1>1, <1>2, Zenon
<1> QED
  BY <1>3, <1>4, Zenon DEF ListOf

LEMMA SpliceIn ==
    ASSUME NEW s \in Seq(Nodes), ListIs(s), NEW n \in Nodes, \A i \in 1..Len(s) : s[i] # n,
           NEW k \in 1..(Len(s) + 1), SplicedIn(n, At(s, k - 1), At(s, k)),
           NEW r, r = List!Abstract!InsertAt(s, k, n)
    PROVE  r \in Seq(Nodes) /\ ListIs(r)'
<1>1. /\ r \in Seq(Nodes) /\ Len(r) = Len(s) + 1
      /\ \A i \in Int : At(r, i) = IF i < k THEN At(s, i) ELSE IF i = k THEN n ELSE At(s, i - 1)
  BY Inserted
<1>2. /\ Len(s) \in Nat /\ k \in Int /\ n # null
      /\ \A i \in Int : /\ At(s, i) \in Nodes \cup {null} /\ At(s, i) # n
                        /\ At(s, i) = null <=> i \notin 1..Len(s)
  BY AtType, ContainersAssumption
<1>3. /\ \A i, j \in Int : At(s, i) = At(s, j) /\ At(s, i) # null => i = j
      /\ _head = At(s, 1) /\ _tail = At(s, Len(s))
      /\ \A i \in Int : At(s, i) # null =>
           _next[At(s, i)] = At(s, i + 1) /\ _prev[At(s, i)] = At(s, i - 1)
  BY ListByAt DEF ListIs
<1>4. ASSUME NEW i \in Int, NEW j \in Int, At(r, i) = At(r, j), At(r, i) # null
      PROVE  i = j
  BY <1>1, <1>2, <1>3, <1>4
<1>5. _head' = At(r, 1)
  BY <1>1, <1>2, <1>3 DEF SplicedIn
<1>6. _tail' = At(r, Len(r))
  BY <1>1, <1>2, <1>3 DEF SplicedIn
<1>7. ASSUME NEW i \in Int, At(r, i) # null
      PROVE  _next'[At(r, i)] = At(r, i + 1)
  <2>1. CASE i = k
    BY <1>1, <1>2, <2>1 DEF SplicedIn
  <2>2. CASE i = k - 1
    <3>1. At(r, i) = At(s, k - 1) /\ At(r, i + 1) = n
      BY <1>1, <1>2, <2>2
    <3> QED BY <1>2, <1>7, <3>1 DEF SplicedIn
  <2>3. CASE i < k - 1
    <3>1. At(r, i) = At(s, i) /\ At(r, i + 1) = At(s, i + 1) /\ At(s, i) # At(s, k - 1)
      BY <1>1, <1>2, <1>3, <1>7, <2>3
    <3> QED BY <1>2, <1>3, <1>7, <3>1 DEF SplicedIn
  <2>4. CASE i > k
    <3>1. At(r, i) = At(s, i - 1) /\ At(r, i + 1) = At(s, (i - 1) + 1) /\ At(s, i - 1) # At(s, k - 1)
      <4>1. At(r, i) = At(s, i - 1)
        BY <1>1, <1>2, <2>4
      <4>2. At(r, i + 1) = At(s, (i - 1) + 1)
        BY <1>1, <1>2, <2>4
      <4>3. At(s, i - 1) # At(s, k - 1)
        BY <1>2, <1>3, <1>7, <2>4, <4>1
      <4> QED BY <4>1, <4>2, <4>3
    <3> QED BY <1>2, <1>3, <1>7, <3>1 DEF SplicedIn
  <2> QED BY <1>2, <2>1, <2>2, <2>3, <2>4
<1>8. ASSUME NEW i \in Int, At(r, i) # null
      PROVE  _prev'[At(r, i)] = At(r, i - 1)
  <2>1. CASE i = k
    <3>1. At(r, i) = n /\ At(r, i - 1) = At(s, k - 1)
      BY <1>1, <1>2, <2>1
    <3> QED BY <3>1 DEF SplicedIn
  <2>2. CASE i = k + 1
    <3>1. At(r, i) = At(s, k) /\ At(r, i - 1) = n
      BY <1>1, <1>2, <2>2
    <3> QED BY <1>2, <1>8, <3>1 DEF SplicedIn
  <2>3. CASE i < k
    <3>1. At(r, i) = At(s, i) /\ At(r, i - 1) = At(s, i - 1) /\ At(s, i) # At(s, k)
      BY <1>1, <1>2, <1>3, <1>8, <2>3
    <3> QED BY <1>2, <1>3, <1>8, <3>1 DEF SplicedIn
  <2>4. CASE i > k + 1
    <3>1. At(r, i) = At(s, i - 1) /\ At(r, i - 1) = At(s, (i - 1) - 1) /\ At(s, i - 1) # At(s, k)
      <4>1. At(r, i) = At(s, i - 1)
        BY <1>1, <1>2, <2>4
      <4>2. At(r, i - 1) = At(s, (i - 1) - 1)
        BY <1>1, <1>2, <2>4
      <4>3. At(s, i - 1) # At(s, k)
        BY <1>2, <1>3, <1>8, <2>4, <4>1
      <4> QED BY <4>1, <4>2, <4>3
    <3> QED BY <1>2, <1>3, <1>8, <3>1 DEF SplicedIn
  <2> QED BY <1>2, <2>1, <2>2, <2>3, <2>4
<1>9. ASSUME NEW i \in 1..Len(r)
      PROVE  i \in Int /\ At(r, i) # null /\ At(r, i) = r[i]
  <2>1. i \in Int /\ r \in Seq(Nodes)
    BY <1>1
  <2> QED BY <2>1, AtType
<1>10. EachOnce(r)
  <2> SUFFICES ASSUME NEW i \in 1..Len(r), NEW j \in 1..Len(r), r[i] = r[j]
               PROVE  i = j
    BY DEF EachOnce
  <2>1. i \in Int /\ j \in Int /\ At(r, i) = At(r, j) /\ At(r, i) # null
    BY <1>9
  <2> QED BY <1>4, <2>1
<1>11. \A i \in 1..Len(r) : _next'[r[i]] = At(r, i + 1) /\ _prev'[r[i]] = At(r, i - 1)
  BY <1>7, <1>8, <1>9
<1> QED
  BY <1>1, <1>5, <1>6, <1>10, <1>11 DEF ListIs, ListOf

LEMMA SpliceOut ==
    ASSUME NEW s \in Seq(Nodes), ListIs(s), NEW k \in 1..Len(s),
           SplicedOut(At(s, k), At(s, k - 1), At(s, k + 1)),
           NEW r, r = List!Abstract!RemoveAt(s, k)
    PROVE  r \in Seq(Nodes) /\ ListIs(r)'
<1>1. /\ r \in Seq(Nodes) /\ Len(r) = Len(s) - 1
      /\ \A i \in Int : At(r, i) = IF i < k THEN At(s, i) ELSE At(s, i + 1)
  BY Removed
<1>2. /\ Len(s) \in Nat /\ k \in Int /\ At(s, k) # null
      /\ \A i \in Int : /\ At(s, i) \in Nodes \cup {null}
                        /\ At(s, i) = null <=> i \notin 1..Len(s)
  BY AtType
<1>3. /\ \A i, j \in Int : At(s, i) = At(s, j) /\ At(s, i) # null => i = j
      /\ _head = At(s, 1) /\ _tail = At(s, Len(s))
      /\ \A i \in Int : At(s, i) # null =>
           _next[At(s, i)] = At(s, i + 1) /\ _prev[At(s, i)] = At(s, i - 1)
  BY ListByAt DEF ListIs
<1>0. \A i \in Int : /\ i < k => At(r, i) = At(s, i)
                     /\ i >= k => At(r, i) = At(s, i + 1)
  <2>1. k \in Int
    OBVIOUS
  <2> SUFFICES ASSUME NEW i \in Int
               PROVE  /\ i < k => At(r, i) = At(s, i)
                      /\ i >= k => At(r, i) = At(s, i + 1)
    OBVIOUS
  <2>2. At(r, i) = IF i < k THEN At(s, i) ELSE At(s, i + 1)
    BY <1>1, Zenon
  <2> QED BY <2>1, <2>2
<1>4. ASSUME NEW i \in Int, NEW j \in Int, At(r, i) = At(r, j), At(r, i) # null
      PROVE  i = j
  <2>1. i < k \/ i + 1 > k
    BY <1>2
  <2>2. j < k \/ j + 1 > k
    BY <1>2
  <2>3. CASE i < k /\ j < k
    BY <1>1, <1>3, <1>4, <2>3
  <2>4. CASE i < k /\ ~(j < k)
    <3>1. At(s, i) = At(s, j + 1) /\ At(s, i) # null
      BY <1>1, <1>4, <2>4
    <3>2. i = j + 1
      BY <1>3, <3>1
    <3> QED BY <1>2, <2>4, <3>2
  <2>5. CASE ~(i < k) /\ j < k
    <3>1. At(s, i + 1) = At(s, j) /\ At(s, i + 1) # null
      BY <1>1, <1>4, <2>5
    <3>2. i + 1 = j
      BY <1>3, <3>1
    <3> QED BY <1>2, <2>5, <3>2
  <2>6. CASE ~(i < k) /\ ~(j < k)
    <3>1. At(s, i + 1) = At(s, j + 1) /\ At(s, i + 1) # null
      BY <1>1, <1>4, <2>6
    <3>2. i + 1 = j + 1
      BY <1>3, <3>1
    <3> QED BY <3>2
  <2> QED BY <2>3, <2>4, <2>5, <2>6
<1>5. _head' = At(r, 1)
  <2>1. CASE k = 1
    <3>1. At(s, k - 1) = null /\ At(r, 1) = At(s, k + 1)
      BY <1>1, <1>2, <2>1
    <3> QED BY <3>1 DEF SplicedOut
  <2>2. CASE k # 1
    <3>1. At(s, k - 1) # null /\ At(r, 1) = At(s, 1)
      BY <1>1, <1>2, <2>2
    <3> QED BY <1>3, <3>1 DEF SplicedOut
  <2> QED BY <2>1, <2>2
<1>6. _tail' = At(r, Len(r))
  <2>1. CASE k = Len(s)
    <3>1. At(s, k + 1) = null /\ At(r, Len(r)) = At(s, k - 1)
      BY <1>1, <1>2, <2>1
    <3> QED BY <3>1 DEF SplicedOut
  <2>2. CASE k # Len(s)
    <3>1. At(s, k + 1) # null /\ At(r, Len(r)) = At(s, (Len(s) - 1) + 1)
      <4>1. k + 1 \in 1..Len(s) /\ Len(s) - 1 \in Int /\ Len(s) - 1 >= k
        BY <1>2, <2>2
      <4>2. At(r, Len(s) - 1) = At(s, (Len(s) - 1) + 1)
        BY <1>0, <4>1
      <4> QED BY <1>1, <1>2, <4>1, <4>2
    <3>2. (Len(s) - 1) + 1 = Len(s)
      BY <1>2
    <3> QED BY <1>3, <3>1, <3>2 DEF SplicedOut
  <2> QED BY <2>1, <2>2
<1>7. ASSUME NEW i \in Int, At(r, i) # null
      PROVE  _next'[At(r, i)] = At(r, i + 1)
  <2>1. CASE i = k - 1
    <3>1. At(r, i) = At(s, k - 1) /\ At(r, i + 1) = At(s, k + 1) /\ At(s, k - 1) # At(s, k)
      BY <1>1, <1>2, <1>3, <1>7, <2>1
    <3> QED BY <1>2, <1>7, <3>1 DEF SplicedOut
  <2>2. CASE i < k - 1
    <3>1. /\ At(r, i) = At(s, i) /\ At(r, i + 1) = At(s, i + 1)
          /\ At(s, i) # At(s, k - 1) /\ At(s, i) # At(s, k)
      <4>1. At(r, i) = At(s, i) /\ At(r, i + 1) = At(s, i + 1)
        BY <1>2, <1>0, <2>2
      <4> QED BY <1>2, <1>3, <1>7, <2>2, <4>1
    <3> QED BY <1>2, <1>3, <1>7, <3>1 DEF SplicedOut
  <2>3. CASE i >= k
    <3>1. /\ At(r, i) = At(s, i + 1) /\ At(r, i + 1) = At(s, (i + 1) + 1)
          /\ At(s, i + 1) # At(s, k - 1) /\ At(s, i + 1) # At(s, k)
      <4>1. At(r, i) = At(s, i + 1) /\ At(r, i + 1) = At(s, (i + 1) + 1)
        BY <1>2, <1>0, <2>3
      <4>2. i + 1 # k - 1 /\ i + 1 # k
        BY <1>2, <2>3
      <4> QED BY <1>2, <1>3, <1>7, <4>1, <4>2
    <3> QED BY <1>2, <1>3, <1>7, <3>1 DEF SplicedOut
  <2> QED BY <1>2, <2>1, <2>2, <2>3
<1>8. ASSUME NEW i \in Int, At(r, i) # null
      PROVE  _prev'[At(r, i)] = At(r, i - 1)
  <2>1. CASE i = k
    <3>1. At(r, i) = At(s, k + 1) /\ At(r, i - 1) = At(s, k - 1) /\ At(s, k + 1) # At(s, k)
      BY <1>1, <1>2, <1>3, <1>8, <2>1
    <3> QED BY <1>2, <1>8, <3>1 DEF SplicedOut
  <2>2. CASE i < k
    <3>1. /\ At(r, i) = At(s, i) /\ At(r, i - 1) = At(s, i - 1)
          /\ At(s, i) # At(s, k + 1) /\ At(s, i) # At(s, k)
      BY <1>1, <1>2, <1>3, <1>8, <2>2
    <3> QED BY <1>2, <1>3, <1>8, <3>1 DEF SplicedOut
  <2>3. CASE i > k
    <3>1. /\ At(r, i) = At(s, i + 1) /\ At(r, i - 1) = At(s, (i + 1) - 1)
          /\ At(s, i + 1) # At(s, k + 1) /\ At(s, i + 1) # At(s, k)
      <4>1. At(r, i) = At(s, i + 1) /\ At(r, i - 1) = At(s, (i - 1) + 1) /\ (i - 1) + 1 = (i + 1) - 1
        BY <1>2, <1>0, <2>3
      <4>2. i + 1 # k + 1 /\ i + 1 # k
        BY <1>2, <2>3
      <4> QED BY <1>2, <1>3, <1>8, <4>1, <4>2
    <3> QED BY <1>2, <1>3, <1>8, <3>1 DEF SplicedOut
  <2> QED BY <1>2, <2>1, <2>2, <2>3
<1>9. ASSUME NEW i \in 1..Len(r)
      PROVE  i \in Int /\ At(r, i) # null /\ At(r, i) = r[i]
  <2>1. i \in Int /\ r \in Seq(Nodes)
    BY <1>1
  <2> QED BY <2>1, AtType
<1>10. EachOnce(r)
  <2> SUFFICES ASSUME NEW i \in 1..Len(r), NEW j \in 1..Len(r), r[i] = r[j]
               PROVE  i = j
    BY DEF EachOnce
  <2>1. i \in Int /\ j \in Int /\ At(r, i) = At(r, j) /\ At(r, i) # null
    BY <1>9
  <2> QED BY <1>4, <2>1
<1>11. \A i \in 1..Len(r) : _next'[r[i]] = At(r, i + 1) /\ _prev'[r[i]] = At(r, i - 1)
  BY <1>7, <1>8, <1>9
<1> QED
  BY <1>1, <1>5, <1>6, <1>10, <1>11 DEF ListIs, ListOf

(* What the visits see of a splice is an operation of NodeList.            *)
LEMMA VisitsInsert ==
    ASSUME NEW s \in Seq(Nodes), ListIs(s), NEW n \in Nodes, \A i \in 1..Len(s) : s[i] # n,
           NEW k \in 1..(Len(s) + 1), SplicedIn(n, At(s, k - 1), At(s, k))
    PROVE  ListInv' /\ List!Abstract!Next
<1> DEFINE r == List!Abstract!InsertAt(s, k, n)
           q == List!Abstract!InsertAt(Backwards(s), Len(s) + 2 - k, n)
<1>1. r \in Seq(Nodes) /\ ListIs(r)'
  BY SpliceIn
<1>2. /\ Len(r) = Len(s) + 1
      /\ \A i \in Int : At(r, i) = IF i < k THEN At(s, i) ELSE IF i = k THEN n ELSE At(s, i - 1)
  BY Inserted
<1>3. Len(s) \in Nat /\ k \in Int /\ Len(s) + 2 - k \in 1..(Len(s) + 1)
  OBVIOUS
<1>4. /\ Backwards(s) \in Seq(Nodes) /\ Len(Backwards(s)) = Len(s)
      /\ \A i \in Int : At(Backwards(s), i) = At(s, Len(s) + 1 - i)
      /\ Backwards(r) \in Seq(Nodes) /\ Len(Backwards(r)) = Len(r)
      /\ \A i \in Int : At(Backwards(r), i) = At(r, Len(r) + 1 - i)
  <2> HIDE DEF r
  <2> QED BY <1>1, BackwardsAt
<1>5. Len(s) + 2 - k \in 1..(Len(Backwards(s)) + 1)
  BY <1>3, <1>4
<1>6. /\ q \in Seq(Nodes) /\ Len(q) = Len(Backwards(s)) + 1
      /\ \A i \in Int : At(q, i) = IF i < Len(s) + 2 - k THEN At(Backwards(s), i)
                                   ELSE IF i = Len(s) + 2 - k THEN n ELSE At(Backwards(s), i - 1)
  <2> DEFINE b == Backwards(s)
             m == Len(s) + 2 - k
  <2>1. b \in Seq(Nodes) /\ m \in 1..(Len(b) + 1)
    BY <1>4, <1>5
  <2> HIDE DEF b, m
  <2>2. /\ List!Abstract!InsertAt(b, m, n) \in Seq(Nodes) /\ Len(List!Abstract!InsertAt(b, m, n)) = Len(b) + 1
        /\ \A i \in Int : At(List!Abstract!InsertAt(b, m, n), i) = IF i < m THEN At(b, i) ELSE IF i = m THEN n ELSE At(b, i - 1)
    BY <2>1, Inserted
  <2> QED BY <2>2 DEF b, m
<1>7. List!Visit(_head', _next') = r /\ List!Visit(_tail', _prev') = Backwards(r)
  <2> HIDE DEF r
  <2> QED BY <1>1, ListVisitsPrimed
<1> HIDE DEF r, q
<1>8. Backwards(r) = q
  <2>1. Len(Backwards(r)) = Len(q)
    BY <1>2, <1>4, <1>6
  <2>2. ASSUME NEW i \in Int PROVE At(Backwards(r), i) = At(q, i)
    <3> DEFINE j == Len(s) + 2 - i
    <3>1. j \in Int /\ At(Backwards(r), i) = At(r, j)
      <4>1. j \in Int /\ Len(r) + 1 - i = j
        BY <1>2, <1>3
      <4>2. At(Backwards(r), i) = At(r, Len(r) + 1 - i)
        BY <1>4
      <4> QED BY <4>1, <4>2
    <3>2. CASE i < Len(s) + 2 - k
      <4>1. At(q, i) = At(s, Len(s) + 1 - i)
        BY <1>3, <1>4, <1>6, <3>2
      <4>2. At(r, j) = At(s, j - 1) /\ j - 1 = Len(s) + 1 - i
        BY <1>2, <1>3, <3>2
      <4> QED BY <3>1, <4>1, <4>2
    <3>3. CASE i = Len(s) + 2 - k
      <4>1. At(q, i) = n
        BY <1>3, <1>6, <3>3
      <4>2. At(r, j) = n
        BY <1>2, <1>3, <3>3
      <4> QED BY <3>1, <4>1, <4>2
    <3>4. CASE i > Len(s) + 2 - k
      <4>1. At(q, i) = At(Backwards(s), i - 1)
        BY <1>3, <1>6, <3>4
      <4>2. At(Backwards(s), i - 1) = At(s, Len(s) + 1 - (i - 1))
        BY <1>4
      <4>3. At(r, j) = At(s, j) /\ Len(s) + 1 - (i - 1) = j
        BY <1>2, <1>3, <3>4
      <4> QED BY <3>1, <4>1, <4>2, <4>3
    <3> QED BY <1>3, <3>2, <3>3, <3>4
  <2> QED BY <1>4, <1>6, <2>1, <2>2, SeqByAt
<1>9. List!Visit(_head, _next) = s /\ List!Visit(_tail, _prev) = Backwards(s)
  BY ListVisits
<1>10. List!Abstract!Insert(n, k)
  BY <1>7, <1>8, <1>9 DEF List!Abstract!Insert, r, q
<1> QED
  BY <1>1, <1>9, <1>10 DEF ListInv, SplicedIn, List!Abstract!Next

LEMMA VisitsDelete ==
    ASSUME NEW s \in Seq(Nodes), ListIs(s), NEW k \in 1..Len(s),
           SplicedOut(At(s, k), At(s, k - 1), At(s, k + 1))
    PROVE  ListInv' /\ List!Abstract!Next
<1> DEFINE r == List!Abstract!RemoveAt(s, k)
           q == List!Abstract!RemoveAt(Backwards(s), Len(s) + 1 - k)
<1>1. r \in Seq(Nodes) /\ ListIs(r)'
  BY SpliceOut
<1>2. /\ Len(r) = Len(s) - 1
      /\ \A i \in Int : At(r, i) = IF i < k THEN At(s, i) ELSE At(s, i + 1)
  BY Removed
<1>3. Len(s) \in Nat /\ k \in Int /\ Len(s) + 1 - k \in 1..Len(s)
  OBVIOUS
<1>4. /\ Backwards(s) \in Seq(Nodes) /\ Len(Backwards(s)) = Len(s)
      /\ \A i \in Int : At(Backwards(s), i) = At(s, Len(s) + 1 - i)
      /\ Backwards(r) \in Seq(Nodes) /\ Len(Backwards(r)) = Len(r)
      /\ \A i \in Int : At(Backwards(r), i) = At(r, Len(r) + 1 - i)
  <2> HIDE DEF r
  <2> QED BY <1>1, BackwardsAt
<1>5. Len(s) + 1 - k \in 1..Len(Backwards(s))
  BY <1>3, <1>4
<1>6. /\ q \in Seq(Nodes) /\ Len(q) = Len(Backwards(s)) - 1
      /\ \A i \in Int : At(q, i) = IF i < Len(s) + 1 - k THEN At(Backwards(s), i)
                                   ELSE At(Backwards(s), i + 1)
  <2> DEFINE b == Backwards(s)
             m == Len(s) + 1 - k
  <2>1. b \in Seq(Nodes) /\ m \in 1..Len(b)
    BY <1>4, <1>5
  <2> HIDE DEF b, m
  <2>2. /\ List!Abstract!RemoveAt(b, m) \in Seq(Nodes) /\ Len(List!Abstract!RemoveAt(b, m)) = Len(b) - 1
        /\ \A i \in Int : At(List!Abstract!RemoveAt(b, m), i) = IF i < m THEN At(b, i) ELSE At(b, i + 1)
    BY <2>1, Removed
  <2> QED BY <2>2 DEF b, m
<1>7. List!Visit(_head', _next') = r /\ List!Visit(_tail', _prev') = Backwards(r)
  <2> HIDE DEF r
  <2> QED BY <1>1, ListVisitsPrimed
<1> HIDE DEF r, q
<1>8. Backwards(r) = q
  <2>1. Len(Backwards(r)) = Len(q)
    BY <1>2, <1>4, <1>6
  <2>2. ASSUME NEW i \in Int PROVE At(Backwards(r), i) = At(q, i)
    <3> DEFINE j == Len(s) - i
    <3>1. j \in Int /\ At(Backwards(r), i) = At(r, j)
      <4>1. j \in Int /\ Len(r) + 1 - i = j
        BY <1>2, <1>3
      <4>2. At(Backwards(r), i) = At(r, Len(r) + 1 - i)
        BY <1>4
      <4> QED BY <4>1, <4>2
    <3>2. CASE i < Len(s) + 1 - k
      <4>1. At(q, i) = At(s, Len(s) + 1 - i)
        BY <1>3, <1>4, <1>6, <3>2
      <4>2. At(r, j) = At(s, j + 1) /\ j + 1 = Len(s) + 1 - i
        BY <1>2, <1>3, <3>2
      <4> QED BY <3>1, <4>1, <4>2
    <3>3. CASE ~(i < Len(s) + 1 - k)
      <4>1. At(q, i) = At(Backwards(s), i + 1)
        BY <1>3, <1>6, <3>3
      <4>2. At(Backwards(s), i + 1) = At(s, Len(s) + 1 - (i + 1))
        BY <1>4
      <4>3. At(r, j) = At(s, j) /\ Len(s) + 1 - (i + 1) = j
        <5>1. j \in Int /\ j < k /\ Len(s) + 1 - (i + 1) = j
          BY <1>3, <3>3
        <5> HIDE DEF j
        <5> QED BY <1>2, <5>1
      <4> QED BY <3>1, <4>1, <4>2, <4>3
    <3> QED BY <3>2, <3>3
  <2> QED BY <1>4, <1>6, <2>1, <2>2, SeqByAt
<1>9. List!Visit(_head, _next) = s /\ List!Visit(_tail, _prev) = Backwards(s)
  BY ListVisits
<1>10. List!Abstract!Delete(k)
  BY <1>7, <1>8, <1>9 DEF List!Abstract!Delete, r, q
<1>11. k \in DOMAIN s
  OBVIOUS
<1> QED
  BY <1>1, <1>9, <1>10, <1>11 DEF ListInv, SplicedOut, List!Abstract!Next

(* The operations are splices.                                             *)
LEMMA HeadAddSplices ==
    ASSUME ListInv, NEW s \in Seq(Nodes), ListIs(s), NEW n \in Nodes,
           \A i \in 1..Len(s) : s[i] # n, List!HeadAdd(n)
    PROVE  ListInv' /\ List!Abstract!Next
<1>1. /\ At(s, 0) = null /\ _head = At(s, 1) /\ _tail = At(s, Len(s))
      /\ At(s, 1) = null <=> At(s, Len(s)) = null
      /\ _head \in Nodes \cup {null} /\ _head # n /\ _tail \in Nodes \cup {null}
  <2>1. Len(s) \in Nat /\ _head = At(s, 1) /\ _tail = At(s, Len(s))
    BY DEF ListIs, ListOf
  <2>2. At(s, 0) = null /\ (At(s, 1) = null <=> Len(s) = 0) /\ (At(s, Len(s)) = null <=> Len(s) = 0)
    BY <2>1, AtType
  <2>3. At(s, 1) \in Nodes \cup {null} /\ At(s, Len(s)) \in Nodes \cup {null} /\ At(s, 1) # n
    BY <2>1, AtType, ContainersAssumption
  <2> QED BY <2>1, <2>2, <2>3
<1>2. [_prev EXCEPT ![n] = null] \in Links /\ _prev \in Links /\ _next \in Links
  BY DEF ListInv, Links
<1>3. _prev' \in Links /\ \A x \in Nodes : _prev'[x] = IF x = _head THEN n
                                                      ELSE IF x = n THEN null ELSE _prev[x]
  <2>1. _prev' = List!Linked([_prev EXCEPT ![n] = null], _head, n)
    BY DEF List!HeadAdd
  <2>2. /\ _prev' \in Links
        /\ \A x \in Nodes : _prev'[x] = IF x = _head THEN n ELSE [_prev EXCEPT ![n] = null][x]
    <3> DEFINE link == [_prev EXCEPT ![n] = null]
    <3>1. link \in Links /\ _prev' = IF _head = null THEN link ELSE [link EXCEPT ![_head] = n]
      BY <1>2, <2>1 DEF List!Linked
    <3> HIDE DEF link
    <3>2. _prev' \in Links /\ \A x \in Nodes : _prev'[x] = IF x = _head THEN n ELSE link[x]
      <4>1. /\ link \in Links /\ _head \in Nodes \cup {null} /\ n \in Nodes \cup {null}
            /\ _prev' = IF _head = null THEN link ELSE [link EXCEPT ![_head] = n]
        BY <1>1, <3>1 DEF List!Linked
      <4> QED BY <4>1, ContainersAssumption DEF Links
    <3> QED BY <3>2 DEF link
  <2> QED BY <1>2, <2>2 DEF Links
<1>4. _next' \in Links /\ \A x \in Nodes : _next'[x] = IF x = n THEN _head ELSE _next[x]
  BY <1>1, <1>2 DEF List!HeadAdd, Links
<1>5. _head' = n /\ _tail' = IF _tail = null THEN n ELSE _tail
  BY DEF List!HeadAdd
<1>6. SplicedIn(n, At(s, 1 - 1), At(s, 1))
  <2>1. SplicedIn(n, null, _head)
    BY <1>1, <1>3, <1>4, <1>5, ContainersAssumption DEF SplicedIn
  <2> QED BY <1>1, <2>1
<1>7. 1 \in 1..(Len(s) + 1)
  OBVIOUS
<1> QED
  BY <1>6, <1>7, VisitsInsert

LEMMA TailAddSplices ==
    ASSUME ListInv, NEW s \in Seq(Nodes), ListIs(s), NEW n \in Nodes,
           \A i \in 1..Len(s) : s[i] # n, List!TailAdd(n)
    PROVE  ListInv' /\ List!Abstract!Next
<1>1. /\ At(s, Len(s) + 1) = null /\ _head = At(s, 1) /\ _tail = At(s, Len(s))
      /\ At(s, 1) = null <=> At(s, Len(s)) = null
      /\ _tail \in Nodes \cup {null} /\ _tail # n /\ Len(s) \in Nat
  <2>1. Len(s) \in Nat /\ _head = At(s, 1) /\ _tail = At(s, Len(s))
    BY DEF ListIs, ListOf
  <2>2. /\ At(s, Len(s) + 1) = null
        /\ At(s, 1) = null <=> Len(s) = 0
        /\ At(s, Len(s)) = null <=> Len(s) = 0
    BY <2>1, AtType
  <2>3. At(s, Len(s)) \in Nodes \cup {null} /\ At(s, Len(s)) # n
    BY <2>1, AtType, ContainersAssumption
  <2> QED BY <2>1, <2>2, <2>3
<1>2. [_next EXCEPT ![n] = null] \in Links /\ _prev \in Links /\ _next \in Links
  BY DEF ListInv, Links
<1>3. _next' \in Links /\ \A x \in Nodes : _next'[x] = IF x = _tail THEN n
                                                      ELSE IF x = n THEN null ELSE _next[x]
  <2> DEFINE link == [_next EXCEPT ![n] = null]
  <2>1. link \in Links /\ _next' = List!Linked(link, _tail, n)
    BY <1>2 DEF List!TailAdd
  <2> HIDE DEF link
  <2>2. _next' \in Links /\ \A x \in Nodes : _next'[x] = IF x = _tail THEN n ELSE link[x]
    <3>1. /\ link \in Links /\ _tail \in Nodes \cup {null} /\ n \in Nodes \cup {null}
          /\ _next' = IF _tail = null THEN link ELSE [link EXCEPT ![_tail] = n]
      BY <1>1, <2>1 DEF List!Linked
    <3> QED BY <3>1, ContainersAssumption DEF Links
  <2> QED BY <1>2, <2>2 DEF link, Links
<1>4. _prev' \in Links /\ \A x \in Nodes : _prev'[x] = IF x = n THEN _tail ELSE _prev[x]
  BY <1>1, <1>2 DEF List!TailAdd, Links
<1>5. _tail' = n /\ _head' = IF _head = null THEN n ELSE _head
  BY DEF List!TailAdd
<1>6. SplicedIn(n, At(s, (Len(s) + 1) - 1), At(s, Len(s) + 1))
  <2>1. SplicedIn(n, _tail, null)
    BY <1>1, <1>3, <1>4, <1>5, ContainersAssumption DEF SplicedIn
  <2>2. (Len(s) + 1) - 1 = Len(s)
    BY <1>1
  <2> QED BY <1>1, <2>1, <2>2
<1>7. Len(s) + 1 \in 1..(Len(s) + 1)
  BY <1>1
<1> QED
  BY <1>6, <1>7, VisitsInsert

LEMMA BetweenSplices ==
    ASSUME ListInv, NEW s \in Seq(Nodes), ListIs(s), NEW n \in Nodes,
           \A i \in 1..Len(s) : s[i] # n, NEW k \in 1..(Len(s) + 1),
           At(s, k - 1) # null, At(s, k) # null, List!Between(At(s, k - 1), n, At(s, k))
    PROVE  ListInv' /\ List!Abstract!Next
<1> DEFINE a == At(s, k - 1)
           b == At(s, k)
<1>1. a \in Nodes /\ b \in Nodes /\ a # n /\ b # n
  <2>1. k \in Int /\ k - 1 \in Int /\ Len(s) \in Nat
    OBVIOUS
  <2> QED BY <2>1, AtType
<1>2. _next' = [_next EXCEPT ![a] = n, ![n] = b] /\ _prev' = [_prev EXCEPT ![b] = n, ![n] = a]
      /\ UNCHANGED <<_head, _tail>>
  BY DEF List!Between
<1>3. a # null /\ b # null
  OBVIOUS
<1> HIDE DEF a, b
<1>4. SplicedIn(n, a, b)
  BY <1>1, <1>2, <1>3 DEF SplicedIn, Links, ListInv
<1> QED
  BY <1>4, VisitsInsert DEF a, b

LEMMA DeleteSplices ==
    ASSUME ListInv, NEW n, List!delete_from_list(n)
    PROVE  ListInv' /\ List!Abstract!Next
<1>1. PICK s \in Seq(Nodes) : ListIs(s)
  BY DEF ListInv
<1>2. PICK k \in 1..Len(s) : s[k] = n
  BY <1>1, ListContains DEF List!delete_from_list
<1> DEFINE a == At(s, k - 1)
           b == At(s, k + 1)
<1>3. /\ a \in Nodes \cup {null} /\ b \in Nodes \cup {null} /\ n \in Nodes /\ At(s, k) = n
      /\ _prev[n] = a /\ _next[n] = b
  <2>1. k \in Int /\ k - 1 \in Int /\ k + 1 \in Int
    OBVIOUS
  <2>2. _prev[n] = a /\ _next[n] = b
    BY <1>1, <1>2 DEF ListIs, ListOf
  <2> QED BY <1>2, <2>1, <2>2, AtType
<1> HIDE DEF a, b
<1>4. [_next EXCEPT ![n] = null] \in Links /\ [_prev EXCEPT ![n] = null] \in Links
      /\ _prev \in Links /\ _next \in Links
  BY DEF ListInv, Links
<1>5. _next' \in Links /\ \A x \in Nodes \ {n} : _next'[x] = IF x = a THEN b ELSE _next[x]
  <2> DEFINE link == [_next EXCEPT ![n] = null]
  <2>1. link \in Links /\ _next' = List!Linked(link, a, b)
    BY <1>3, <1>4 DEF List!delete_from_list
  <2>2. \A x \in Nodes \ {n} : link[x] = _next[x]
    BY <1>4 DEF Links
  <2> HIDE DEF link
  <2>3. _next' \in Links /\ \A x \in Nodes : _next'[x] = IF x = a THEN b ELSE link[x]
    <3>1. /\ link \in Links /\ a \in Nodes \cup {null} /\ b \in Nodes \cup {null}
          /\ _next' = IF a = null THEN link ELSE [link EXCEPT ![a] = b]
      BY <1>3, <2>1 DEF List!Linked
    <3> QED BY <3>1, ContainersAssumption DEF Links
  <2> QED BY <2>2, <2>3
<1>6. _prev' \in Links /\ \A x \in Nodes \ {n} : _prev'[x] = IF x = b THEN a ELSE _prev[x]
  <2> DEFINE link == [_prev EXCEPT ![n] = null]
  <2>1. link \in Links /\ _prev' = List!Linked(link, b, a)
    BY <1>3, <1>4 DEF List!delete_from_list
  <2>2. \A x \in Nodes \ {n} : link[x] = _prev[x]
    BY <1>4 DEF Links
  <2> HIDE DEF link
  <2>3. _prev' \in Links /\ \A x \in Nodes : _prev'[x] = IF x = b THEN a ELSE link[x]
    <3>1. /\ link \in Links /\ b \in Nodes \cup {null} /\ a \in Nodes \cup {null}
          /\ _prev' = IF b = null THEN link ELSE [link EXCEPT ![b] = a]
      BY <1>3, <2>1 DEF List!Linked
    <3> QED BY <3>1, ContainersAssumption DEF Links
  <2> QED BY <2>2, <2>3
<1>7. _head' = (IF a = null THEN b ELSE _head) /\ _tail' = (IF b = null THEN a ELSE _tail)
  BY <1>3 DEF List!delete_from_list
<1>8. SplicedOut(n, a, b)
  BY <1>5, <1>6, <1>7 DEF SplicedOut
<1> QED
  BY <1>1, <1>3, <1>8, VisitsDelete DEF a, b

LEMMA TargetSplices ==
    ASSUME ListInv, NEW n \in Nodes, NEW target \in Nodes \cup {null}, NEW before \in BOOLEAN,
           List!add_to_list_target(target, n, before)
    PROVE  ListInv' /\ List!Abstract!Next
<1>1. PICK s \in Seq(Nodes) : ListIs(s)
  BY DEF ListInv
<1>2. \A i \in 1..Len(s) : s[i] # n
  BY <1>1, ListContains DEF List!add_to_list_target
<1>3. CASE List!HeadAdd(n)
  BY <1>1, <1>2, <1>3, HeadAddSplices
<1>4. CASE List!TailAdd(n)
  BY <1>1, <1>2, <1>4, TailAddSplices
<1>5. CASE ~List!HeadAdd(n) /\ ~List!TailAdd(n)
  <2>1. PICK k \in 1..Len(s) : s[k] = target
    BY <1>1, <1>5, ListContains DEF List!add_to_list_target
  <2>2. /\ k \in Int /\ k \in 1..(Len(s) + 1) /\ k + 1 \in 1..(Len(s) + 1) /\ (k + 1) - 1 = k
        /\ At(s, k) = target /\ target # null
        /\ _prev[target] = At(s, k - 1) /\ _next[target] = At(s, k + 1)
    <3>1. k \in Int /\ Len(s) \in Nat
      OBVIOUS
    <3>2. At(s, k) = target /\ target # null
      BY <2>1, <3>1, AtType, ContainersAssumption
    <3>3. _prev[target] = At(s, k - 1) /\ _next[target] = At(s, k + 1)
      BY <1>1, <2>1 DEF ListIs, ListOf
    <3> QED BY <3>1, <3>2, <3>3
  <2>3. CASE before
    <3>1. List!Between(At(s, k - 1), n, At(s, k)) /\ At(s, k - 1) # null
      BY <1>5, <2>2, <2>3 DEF List!add_to_list_target
    <3> QED BY <1>1, <1>2, <2>2, <3>1, BetweenSplices
  <2>4. CASE ~before
    <3>1. List!Between(At(s, (k + 1) - 1), n, At(s, k + 1)) /\ At(s, k + 1) # null
      BY <1>5, <2>2, <2>4 DEF List!add_to_list_target
    <3>2. At(s, (k + 1) - 1) # null
      BY <2>2
    <3> DEFINE l == k + 1
    <3>3. l \in 1..(Len(s) + 1) /\ List!Between(At(s, l - 1), n, At(s, l))
          /\ At(s, l - 1) # null /\ At(s, l) # null
      BY <2>2, <3>1, <3>2
    <3> HIDE DEF l
    <3> QED BY <1>1, <1>2, <3>3, BetweenSplices
  <2> QED BY <2>3, <2>4
<1> QED
  BY <1>3, <1>4, <1>5

LEMMA ListInit == List!Init => ListInv /\ List!Abstract!Init
<1> SUFFICES ASSUME List!Init PROVE ListInv /\ List!Abstract!Init
  OBVIOUS
<1>1. <<>> \in Seq(Nodes) /\ Len(<<>>) = 0 /\ Backwards(<<>>) = <<>>
  BY DEF Backwards
<1>2. ListIs(<<>>)
  BY <1>1 DEF ListIs, ListOf, EachOnce, At, List!Init
<1>3. _next \in Links /\ _prev \in Links
  BY DEF List!Init, Links
<1>4. List!Abstract!Init
  BY <1>1, <1>2, ListVisits DEF List!Abstract!Init
<1> QED
  BY <1>1, <1>2, <1>3, <1>4 DEF ListInv

ListView == <<List!Visit(_head, _next), List!Visit(_tail, _prev)>>

LEMMA ListStep ==
    ListInv /\ [List!Next]_(List!vars) => ListInv' /\ [List!Abstract!Next]_ListView
<1> SUFFICES ASSUME ListInv, [List!Next]_(List!vars)
             PROVE  ListInv' /\ [List!Abstract!Next]_ListView
  OBVIOUS
<1>1. PICK s \in Seq(Nodes) : ListIs(s)
  BY DEF ListInv
<1>2. ASSUME NEW n \in Nodes, List!head_add_to_list(n) PROVE ListInv' /\ List!Abstract!Next
  <2>1. List!HeadAdd(n) /\ \A i \in 1..Len(s) : s[i] # n
    BY <1>1, <1>2, ListContains DEF List!head_add_to_list
  <2> QED BY <1>1, <2>1, HeadAddSplices
<1>3. ASSUME NEW n \in Nodes, List!tail_add_to_list(n) PROVE ListInv' /\ List!Abstract!Next
  <2>1. List!TailAdd(n) /\ \A i \in 1..Len(s) : s[i] # n
    BY <1>1, <1>3, ListContains DEF List!tail_add_to_list
  <2> QED BY <1>1, <2>1, TailAddSplices
<1>4. ASSUME NEW n \in Nodes, NEW target \in List!Pointers, NEW before \in BOOLEAN,
             List!add_to_list_target(target, n, before)
      PROVE  ListInv' /\ List!Abstract!Next
  BY <1>4, TargetSplices DEF List!Pointers
<1>5. ASSUME NEW n, List!delete_from_list(n) PROVE ListInv' /\ List!Abstract!Next
  BY <1>5, DeleteSplices
<1>6. CASE List!delete_from_list_head
  BY <1>5, <1>6 DEF List!delete_from_list_head
<1>7. CASE List!delete_from_list_tail
  BY <1>5, <1>7 DEF List!delete_from_list_tail
<1>8. CASE UNCHANGED List!vars
  BY <1>1, <1>8 DEF List!vars, ListInv, ListIs, ListView
<1> QED
  BY <1>2, <1>3, <1>4, <1>5, <1>6, <1>7, <1>8 DEF List!Next

(* Whatever nodes are added and deleted where, the pointers describe one   *)
(* sequence of nodes, for any set of nodes (LinkedList.hpp:195-284).       *)
THEOREM ListImplementsNodeList == List!Spec => ImplementsNodeList
<1>1. List!Spec => [][List!Abstract!Next]_ListView
  BY ListInit, ListStep, PTL DEF List!Spec
<1>2. List!Spec => List!Abstract!Init
  BY ListInit, PTL DEF List!Spec
<1> QED
  BY <1>1, <1>2 DEF ImplementsNodeList, List!ImplementsNodeList, List!Abstract!Spec, ListView

-----------------------------------------------------------------------------
(* The bit map: which bits a range touches.                                *)

LEMMA SameMapCardinality == \A S : Map!Cardinality(S) = Cardinality(S)
BY DEF Map!Cardinality, Cardinality

(* A place is a word and an offset in it.                                  *)
Offsets == 0..(BitsPerWord - 1)
PlaceOf(x) == <<x \div BitsPerWord, x % BitsPerWord>>

LEMMA Division ==
    ASSUME NEW x \in Nat
    PROVE  /\ x \div BitsPerWord \in Nat /\ x % BitsPerWord \in Offsets
           /\ (x \div BitsPerWord) * BitsPerWord \in Nat
           /\ x = ((x \div BitsPerWord) * BitsPerWord) + (x % BitsPerWord)
BY ContainersAssumption DEF Offsets

LEMMA WordsApart ==
    ASSUME NEW v \in Int, NEW w \in Int, v < w
    PROVE  (v * BitsPerWord) + BitsPerWord <= w * BitsPerWord
<1>1. BitsPerWord \in Nat /\ BitsPerWord > 0
  BY ContainersAssumption
<1>2. (w - v) * BitsPerWord >= BitsPerWord
  BY <1>1
<1> QED BY <1>1, <1>2

LEMMA OnePlace ==
    ASSUME NEW v \in Int, NEW w \in Int, NEW o \in Offsets, NEW p \in Offsets,
           (v * BitsPerWord) + o = (w * BitsPerWord) + p
    PROVE  v = w /\ o = p
<1>1. BitsPerWord \in Nat /\ v * BitsPerWord \in Int /\ w * BitsPerWord \in Int
      /\ o \in Int /\ p \in Int /\ 0 <= o /\ 0 <= p /\ o < BitsPerWord /\ p < BitsPerWord
  BY ContainersAssumption DEF Offsets
<1>2. ~(v < w)
  BY <1>1, WordsApart
<1>3. ~(w < v)
  BY <1>1, WordsApart
<1>4. v = w
  BY <1>2, <1>3
<1> QED BY <1>1, <1>4

LEMMA BitAt ==
    ASSUME NEW w \in Nat, NEW o \in Offsets
    PROVE  /\ (w * BitsPerWord) + o \in Nat
           /\ ((w * BitsPerWord) + o) \div BitsPerWord = w
           /\ ((w * BitsPerWord) + o) % BitsPerWord = o
<1> DEFINE x == (w * BitsPerWord) + o
<1>1. x \in Nat
  BY ContainersAssumption DEF Offsets
<1>2. /\ x \div BitsPerWord \in Nat /\ x % BitsPerWord \in Offsets
      /\ x = ((x \div BitsPerWord) * BitsPerWord) + (x % BitsPerWord)
  <2> HIDE DEF x
  <2> QED BY <1>1, Division
<1>3. x = (w * BitsPerWord) + o
  OBVIOUS
<1>4. w \in Int /\ x \div BitsPerWord \in Int
  BY <1>2
<1> HIDE DEF x
<1>5. ((x \div BitsPerWord) * BitsPerWord) + (x % BitsPerWord) = (w * BitsPerWord) + o
  BY <1>2, <1>3
<1>6. x \div BitsPerWord = w /\ x % BitsPerWord = o
  BY <1>2, <1>4, <1>5, OnePlace
<1> QED BY <1>1, <1>6 DEF x

(* The number of words of a map.                                           *)
LEMMA WordsOf ==
    ASSUME NEW n \in Nat
    PROVE  /\ Map!calc_words(n) \in Nat
           /\ Map!calc_words(n) = IF n % BitsPerWord = 0 THEN n \div BitsPerWord
                                  ELSE (n \div BitsPerWord) + 1
<1> DEFINE q == n \div BitsPerWord
           r == n % BitsPerWord
<1>1. Map!calc_words(n) = (n + BitsPerWord - 1) \div BitsPerWord
  BY DEF Map!calc_words, Map!word_index_align_up, Map!word_index_align_down
<1>2. /\ q \in Nat /\ r \in Offsets /\ q * BitsPerWord \in Nat
      /\ n = (q * BitsPerWord) + r
  BY Division
<1>3. BitsPerWord \in Nat /\ BitsPerWord > 0 /\ BitsPerWord - 1 \in Offsets
  BY ContainersAssumption DEF Offsets
<1> HIDE DEF q, r
<1>4. CASE r = 0
  <2>1. n + BitsPerWord - 1 = (q * BitsPerWord) + (BitsPerWord - 1)
    BY <1>2, <1>3, <1>4
  <2>2. ((q * BitsPerWord) + (BitsPerWord - 1)) \div BitsPerWord = q
    BY <1>2, <1>3, BitAt
  <2>3. Map!calc_words(n) = q
    BY <1>1, <2>1, <2>2
  <2> QED BY <1>2, <1>4, <2>3 DEF q, r
<1>5. CASE r # 0
  <2>1. r - 1 \in Offsets /\ q + 1 \in Nat
    BY <1>2, <1>3, <1>5 DEF Offsets
  <2>2. (q + 1) * BitsPerWord = (q * BitsPerWord) + BitsPerWord
    BY <1>2, <1>3
  <2>3. n + BitsPerWord - 1 = ((q + 1) * BitsPerWord) + (r - 1)
    BY <1>2, <1>3, <2>1, <2>2 DEF Offsets
  <2>4. (((q + 1) * BitsPerWord) + (r - 1)) \div BitsPerWord = q + 1
    BY <2>1, BitAt
  <2>5. Map!calc_words(n) = q + 1
    BY <1>1, <2>3, <2>4
  <2> QED BY <1>2, <1>5, <2>1, <2>5 DEF q, r
<1> QED BY <1>4, <1>5

LEMMA WordOfBit ==
    ASSUME NEW n \in Nat, NEW x \in 0..(n - 1)
    PROVE  x \div BitsPerWord \in 0..(Map!calc_words(n) - 1) /\ x % BitsPerWord \in Offsets
<1> DEFINE v == x \div BitsPerWord
           o == x % BitsPerWord
           q == n \div BitsPerWord
           r == n % BitsPerWord
           c == Map!calc_words(n)
<1>1. x \in Nat /\ x < n
  OBVIOUS
<1>2. v \in Nat /\ o \in Offsets /\ v * BitsPerWord \in Nat /\ x = (v * BitsPerWord) + o
  BY <1>1, Division
<1>3. q \in Nat /\ r \in Offsets /\ q * BitsPerWord \in Nat /\ n = (q * BitsPerWord) + r
  BY Division
<1>4. c \in Nat /\ c = IF r = 0 THEN q ELSE q + 1
  BY WordsOf
<1> HIDE DEF v, o, q, r, c
<1>5. ~(q < v)
  <2> SUFFICES ASSUME q < v PROVE FALSE
    OBVIOUS
  <2>1. (q * BitsPerWord) + BitsPerWord <= v * BitsPerWord
    BY <1>2, <1>3, WordsApart
  <2> QED BY <1>1, <1>2, <1>3, <2>1, ContainersAssumption DEF Offsets
<1>6. r = 0 => v # q
  BY <1>1, <1>2, <1>3 DEF Offsets
<1>7. v < c
  BY <1>2, <1>3, <1>4, <1>5, <1>6
<1>8. v \in 0..(c - 1) /\ o \in Offsets
  BY <1>2, <1>4, <1>7
<1> QED BY <1>8 DEF v, o, c

(* A mask over part of a word.                                             *)
LEMMA WithinWord ==
    ASSUME NEW w \in Nat, NEW o \in Offsets, NEW b \in Nat, NEW e \in Nat,
           b <= e, e - b < BitsPerWord, e <= ((b \div BitsPerWord) * BitsPerWord) + BitsPerWord
    PROVE  o \in Map!within(w, b, e) <=> b <= (w * BitsPerWord) + o /\ (w * BitsPerWord) + o < e
<1> DEFINE q == b \div BitsPerWord
           r == b % BitsPerWord
           x == (w * BitsPerWord) + o
<1>1. q \in Nat /\ r \in Offsets /\ q * BitsPerWord \in Nat /\ b = (q * BitsPerWord) + r
  BY Division
<1>2. BitsPerWord \in Nat /\ BitsPerWord > 0 /\ o \in Nat /\ o < BitsPerWord /\ r \in Nat
      /\ w * BitsPerWord \in Nat
  BY <1>1, ContainersAssumption DEF Offsets
<1>3. Map!within(w, b, e) = IF b # e /\ q = w THEN Map!bit_mask(b, e) ELSE {}
  BY DEF Map!within, Map!word_index_align_down
<1>4. CASE b # e /\ q = w
  <2>1. Map!bit_mask(b, e) = {r + i : i \in 0..((e - b) - 1)} \cap Offsets
    BY DEF Map!bit_mask, Map!word_offset_in_word, Map!Word, Map!Bits, Offsets
  <2> HIDE DEF q, r
  <2>2. o \in {r + i : i \in 0..((e - b) - 1)} <=> r <= o /\ o < r + (e - b)
    <3>1. ASSUME r <= o, o < r + (e - b) PROVE o - r \in 0..((e - b) - 1) /\ o = r + (o - r)
      BY <1>2, <3>1
    <3> QED BY <1>2, <3>1
  <2>3. b <= x /\ x < e <=> r <= o /\ o < r + (e - b)
    BY <1>1, <1>2, <1>4
  <2> QED BY <1>3, <1>4, <2>1, <2>2, <2>3
<1>5. CASE b = e
  BY <1>1, <1>2, <1>3, <1>5
<1>6. CASE q # w
  <2>1. q < w => (q * BitsPerWord) + BitsPerWord <= w * BitsPerWord
    BY <1>1, WordsApart
  <2>2. w < q => (w * BitsPerWord) + BitsPerWord <= q * BitsPerWord
    BY <1>1, WordsApart
  <2>3. e <= (q * BitsPerWord) + BitsPerWord
    OBVIOUS
  <2> HIDE DEF q, r
  <2>4. ~(b <= x /\ x < e)
    BY <1>1, <1>2, <1>6, <2>1, <2>2, <2>3
  <2> QED BY <1>3, <1>6, <2>4
<1> QED BY <1>4, <1>5, <1>6

LEMMA Touched ==
    ASSUME NEW w \in Nat, NEW o \in Offsets, NEW b \in Nat, NEW e \in Nat, b <= e
    PROVE  o \in Map!touched(w, b, e) <=> b <= (w * BitsPerWord) + o /\ (w * BitsPerWord) + o < e
<1> DEFINE q == b \div BitsPerWord
           r == b % BitsPerWord
           x == (w * BitsPerWord) + o
           first == Map!calc_words(b)
           last == e \div BitsPerWord
           s == e % BitsPerWord
           f == first * BitsPerWord
           l == last * BitsPerWord
           boundary == IF f < e THEN f ELSE e
<1>1. q \in Nat /\ r \in Offsets /\ q * BitsPerWord \in Nat /\ b = (q * BitsPerWord) + r
  BY Division
<1>2. last \in Nat /\ s \in Offsets /\ l \in Nat /\ e = l + s
  BY Division
<1>3. BitsPerWord \in Nat /\ BitsPerWord > 0 /\ o \in Nat /\ o < BitsPerWord /\ r \in Nat /\ s \in Nat
      /\ r < BitsPerWord /\ s < BitsPerWord /\ w * BitsPerWord \in Nat
  BY <1>1, <1>2, ContainersAssumption DEF Offsets
<1>4. first \in Nat /\ first = IF r = 0 THEN q ELSE q + 1
  BY WordsOf
<1>5. Map!touched(w, b, e) =
        IF first < last
        THEN IF w \in first..(last - 1) THEN Offsets
             ELSE Map!within(w, b, f) \cup Map!within(w, l, e)
        ELSE Map!within(w, b, boundary) \cup Map!within(w, boundary, e)
  BY DEF Map!touched, Map!calc_words, Map!word_index_align_down, Map!word_index_bit_no,
         Map!MIN2, Map!Bits, Map!Word, Offsets
<1>6. /\ f \in Nat /\ b <= f /\ f - b < BitsPerWord
      /\ f <= (q * BitsPerWord) + BitsPerWord
  <2> HIDE DEF q, r, first
  <2>1. (q + 1) * BitsPerWord = (q * BitsPerWord) + BitsPerWord
    BY <1>1, <1>3
  <2>2. CASE r = 0
    BY <1>1, <1>3, <1>4, <2>2
  <2>3. CASE r # 0
    BY <1>1, <1>3, <1>4, <2>1, <2>3
  <2> QED BY <2>2, <2>3
<1>7. l \div BitsPerWord = last /\ f \div BitsPerWord = first
  <2>1. 0 \in Offsets
    BY <1>3 DEF Offsets
  <2>2. (l + 0) \div BitsPerWord = last
    BY <1>2, <2>1, BitAt
  <2>3. (f + 0) \div BitsPerWord = first
    BY <1>4, <2>1, BitAt
  <2>4. l + 0 = l /\ f + 0 = f
    BY <1>2, <1>6
  <2> QED BY <2>2, <2>3, <2>4
<1>8. l <= e /\ e - l < BitsPerWord /\ e <= l + BitsPerWord
  <2> HIDE DEF l, s, last
  <2> QED BY <1>2, <1>3
<1>9. w \in Int /\ first \in Int /\ last \in Int
  BY <1>2, <1>4
<1>10. first <= w => f <= w * BitsPerWord
  <2>1. first < w => f + BitsPerWord <= w * BitsPerWord
    BY <1>9, WordsApart
  <2> HIDE DEF first
  <2> QED BY <1>3, <1>4, <1>6, <2>1
<1>11. w < first => (w * BitsPerWord) + BitsPerWord <= f
  BY <1>9, WordsApart
<1>12. w < last => (w * BitsPerWord) + BitsPerWord <= l
  BY <1>9, WordsApart
<1>13. last <= w => l <= w * BitsPerWord
  <2>1. last < w => l + BitsPerWord <= w * BitsPerWord
    BY <1>9, WordsApart
  <2> HIDE DEF last
  <2> QED BY <1>2, <1>3, <2>1
<1>14. first < last => f <= l
  <2>1. first < last => f + BitsPerWord <= l
    BY <1>9, WordsApart
  <2> HIDE DEF f, l, first, last
  <2> QED BY <1>2, <1>3, <1>6, <2>1
<1>15. f <= e => (o \in Map!within(w, b, f) <=> b <= x /\ x < f)
  BY <1>6, WithinWord
<1>16. o \in Map!within(w, l, e) <=> l <= x /\ x < e
  <2>1. l \in Nat /\ l <= e /\ e - l < BitsPerWord
        /\ e <= ((l \div BitsPerWord) * BitsPerWord) + BitsPerWord
    BY <1>2, <1>7, <1>8
  <2> HIDE DEF l
  <2> QED BY <2>1, WithinWord
<1>17. CASE first < last
  <2>1. CASE w \in first..(last - 1)
    <3>1. o \in Map!touched(w, b, e)
      BY <1>5, <1>17, <2>1, Zenon
    <3>2. first <= w /\ w < last
      BY <1>9, <2>1
    <3> HIDE DEF first, last, f, l, s
    <3>3. b <= x /\ x < e
      BY <1>2, <1>3, <1>6, <1>10, <1>12, <3>2
    <3> QED BY <3>1, <3>3
  <2>2. CASE w \notin first..(last - 1)
    <3>1. Map!touched(w, b, e) = Map!within(w, b, f) \cup Map!within(w, l, e)
      BY <1>5, <1>17, <2>2, Zenon
    <3>2. w < first \/ last <= w
      BY <1>9, <2>2
    <3> HIDE DEF first, last, f, l, s
    <3>3. b <= x /\ x < e <=> (b <= x /\ x < f) \/ (l <= x /\ x < e)
      BY <1>2, <1>3, <1>6, <1>11, <1>13, <1>14, <1>17, <3>2
    <3>4. f <= e
      BY <1>2, <1>3, <1>6, <1>14, <1>17
    <3> QED BY <1>15, <1>16, <3>1, <3>3, <3>4
  <2> QED BY <2>1, <2>2
<1>18. CASE ~(first < last) /\ f < e
  <2>1. ~(last < first)
    <3>1. last < first => l + BitsPerWord <= f
      BY <1>9, WordsApart
    <3> HIDE DEF first, last, f, l, s
    <3> QED BY <1>2, <1>3, <1>6, <1>18, <3>1
  <2>2. first = last
    BY <1>9, <1>18, <2>1
  <2>3. Map!touched(w, b, e) = Map!within(w, b, f) \cup Map!within(w, l, e) /\ f = l
    BY <1>5, <1>18, <2>2
  <2>4. b <= x /\ x < e <=> (b <= x /\ x < f) \/ (l <= x /\ x < e)
    <3> HIDE DEF first, last, f, l, s
    <3> QED BY <1>2, <1>3, <1>6, <1>18, <2>3
  <2>5. f <= e
    BY <1>6, <1>18
  <2> QED BY <1>15, <1>16, <2>3, <2>4, <2>5
<1>19. CASE ~(first < last) /\ ~(f < e)
  <2>1. Map!touched(w, b, e) = Map!within(w, b, e) \cup Map!within(w, e, e)
    BY <1>5, <1>19
  <2>2. Map!within(w, e, e) = {}
    BY DEF Map!within
  <2>3. o \in Map!within(w, b, e) <=> b <= x /\ x < e
    <3>1. e - b < BitsPerWord /\ e <= (q * BitsPerWord) + BitsPerWord
      <4> HIDE DEF f, q
      <4> QED BY <1>1, <1>3, <1>6, <1>19
    <3> QED BY <3>1, WithinWord
  <2> QED BY <2>1, <2>2, <2>3
<1> QED BY <1>17, <1>18, <1>19

(* Up to the first par_set_bit every bit is 1 exactly if it was marked, and*)
(* whoever changes a bit with others clears it.                            *)
BitOf(map, x) == x % BitsPerWord \in map[x \div BitsPerWord]
Running(t) == par[t].runs => par[t].bit \in 0..(_total_bits - 1) /\ par[t].sets \in BOOLEAN
BitInv ==
    /\ _total_bits \in Nat
    /\ _map \in [0..(Map!calc_words(_total_bits) - 1) -> SUBSET Offsets]
    /\ DOMAIN par = Threads /\ \A t \in Threads : Running(t)
    /\ ~par_set =>
         /\ marked \subseteq 0..(_total_bits - 1)
         /\ \A x \in 0..(_total_bits - 1) : BitOf(_map, x) <=> x \in marked
         /\ \A t \in Threads : par[t].runs => ~par[t].sets

LEMMA BitInit == Map!Init => BitInv
<1> SUFFICES ASSUME Map!Init PROVE BitInv
  OBVIOUS
<1>1. /\ _map = <<>> /\ _total_bits = 0 /\ par = [t \in Threads |-> Map!NoCall] /\ marked = {}
  BY DEF Map!Init
<1>2. Map!calc_words(0) = 0
  <2>1. 0 % BitsPerWord = 0 /\ 0 \div BitsPerWord = 0
    BY ContainersAssumption
  <2> QED BY <2>1, WordsOf
<1>3. _map \in [0..(Map!calc_words(_total_bits) - 1) -> SUBSET Offsets]
  <2>1. 0..(Map!calc_words(_total_bits) - 1) = {} /\ DOMAIN _map = {}
    BY <1>1, <1>2
  <2> QED BY <1>1, <2>1
<1>4. \A t \in Threads : ~par[t].runs
  BY <1>1 DEF Map!NoCall
<1> QED
  BY <1>1, <1>3, <1>4 DEF BitInv, Running

(* What a range sets or clears.                                            *)
LEMMA RangeBits ==
    ASSUME BitInv, NEW b \in Nat, NEW e \in Nat, b <= e, e <= _total_bits,
           NEW x \in 0..(_total_bits - 1)
    PROVE  /\ BitOf(Map!AfterSet(b, e), x) <=> BitOf(_map, x) \/ x \in b..(e - 1)
           /\ BitOf(Map!AfterClear(b, e), x) <=> BitOf(_map, x) /\ x \notin b..(e - 1)
<1> DEFINE w == x \div BitsPerWord
           o == x % BitsPerWord
<1>1. w \in 0..(Map!calc_words(_total_bits) - 1) /\ o \in Offsets
  BY WordOfBit DEF BitInv
<1>2. x \in Nat /\ w \in Nat /\ x = (w * BitsPerWord) + o
  BY Division
<1>3. o \in Map!touched(w, b, e) <=> b <= (w * BitsPerWord) + o /\ (w * BitsPerWord) + o < e
  <2> HIDE DEF w, o
  <2> QED BY <1>1, <1>2, Touched
<1>4. o \in Map!touched(w, b, e) <=> x \in b..(e - 1)
  <2> HIDE DEF w, o
  <2> QED BY <1>2, <1>3
<1>5. w \in DOMAIN _map
  BY <1>1 DEF BitInv
<1>6. /\ Map!AfterSet(b, e)[w] = _map[w] \cup Map!touched(w, b, e)
      /\ Map!AfterClear(b, e)[w] = _map[w] \ Map!touched(w, b, e)
  BY <1>5 DEF Map!AfterSet, Map!AfterClear, Map!Words
<1> QED
  BY <1>4, <1>6 DEF BitOf

LEMMA RangeType ==
    ASSUME BitInv, NEW b \in Nat, NEW e \in Nat
    PROVE  /\ Map!AfterSet(b, e) \in [DOMAIN _map -> SUBSET Offsets]
           /\ Map!AfterClear(b, e) \in [DOMAIN _map -> SUBSET Offsets]
<1>1. ASSUME NEW w PROVE Map!touched(w, b, e) \subseteq Offsets
  BY DEF Map!touched, Map!within, Map!bit_mask, Map!Word, Map!Bits, Offsets
<1>2. \A w \in DOMAIN _map : _map[w] \subseteq Offsets
  BY DEF BitInv
<1> QED BY <1>1, <1>2 DEF Map!AfterSet, Map!AfterClear, Map!Words

LEMMA QuietRuns ==
    ASSUME Map!Quiet PROVE \A t \in Threads : ~par[t].runs
BY DEF Map!Quiet

LEMMA BitSetRange ==
    ASSUME BitInv, NEW b \in Nat, NEW e \in Nat, Map!set_range(b, e)
    PROVE  BitInv'
<1>1. /\ b <= e /\ e <= _total_bits /\ _map' = Map!AfterSet(b, e)
      /\ marked' = marked \cup b..(e - 1)
      /\ UNCHANGED <<_total_bits, par, par_set>>
  BY DEF Map!set_range, Map!Bits
<1>2. _map' \in [DOMAIN _map -> SUBSET Offsets]
  BY <1>1, RangeType
<1>3. ASSUME NEW x \in 0..(_total_bits - 1)
      PROVE  BitOf(_map', x) <=> BitOf(_map, x) \/ x \in b..(e - 1)
  BY <1>1, RangeBits
<1>4. b..(e - 1) \subseteq 0..(_total_bits - 1)
  BY <1>1 DEF BitInv
<1> QED BY <1>1, <1>2, <1>3, <1>4 DEF BitInv, Running

LEMMA BitClearRange ==
    ASSUME BitInv, NEW b \in Nat, NEW e \in Nat, b <= e, e <= _total_bits,
           _map' = Map!AfterClear(b, e), marked' = marked \ Map!Bits(b, e),
           UNCHANGED <<_total_bits, par, par_set>>
    PROVE  BitInv'
<1>1. _map' \in [DOMAIN _map -> SUBSET Offsets]
  BY RangeType
<1>2. ASSUME NEW x \in 0..(_total_bits - 1)
      PROVE  BitOf(_map', x) <=> BitOf(_map, x) /\ x \notin b..(e - 1)
  BY RangeBits
<1> QED BY <1>1, <1>2 DEF BitInv, Running, Map!Bits

LEMMA BitReallocate ==
    ASSUME BitInv, NEW n \in Nat, NEW clear, Map!Reallocate(n, clear)
    PROVE  BitInv'
<1>1. PICK memory \in [0..(Map!calc_words(n) - 1) -> SUBSET Offsets] :
         /\ _map' = memory
         /\ marked' = {x \in 0..(n - 1) : x % BitsPerWord \in memory[x \div BitsPerWord]}
  BY DEF Map!Reallocate, Map!Bits, Map!Word, Offsets, Map!word_offset_in_word,
         Map!word_index_align_down
<1>2. _total_bits' = n /\ UNCHANGED <<par, par_set>> /\ \A t \in Threads : ~par[t].runs
  BY QuietRuns DEF Map!Reallocate
<1>3. marked' \subseteq 0..(n - 1) /\ \A x \in 0..(n - 1) : BitOf(_map', x) <=> x \in marked'
  BY <1>1 DEF BitOf
<1>4. _map' \in [0..(Map!calc_words(n) - 1) -> SUBSET Offsets]
  BY <1>1
<1>5. (Map!calc_words(_total_bits))' = Map!calc_words(n)
  BY <1>2 DEF Map!calc_words, Map!word_index_align_up, Map!word_index_align_down
<1> QED BY <1>2, <1>3, <1>4, <1>5 DEF BitInv, Running

LEMMA BitKeepMemory ==
    ASSUME BitInv, NEW n \in Nat, NEW clear \in BOOLEAN, Map!KeepMemory(n, clear)
    PROVE  BitInv'
<1>1. UNCHANGED <<_total_bits, par, par_set>>
  BY DEF Map!KeepMemory
<1>2. CASE clear /\ n <= _total_bits
  <2>1. _map' = Map!AfterClear(0, n) /\ marked' = marked \ Map!Bits(0, n)
    BY <1>2 DEF Map!KeepMemory, BitInv
  <2> QED BY <1>1, <1>2, <2>1, BitClearRange
<1>3. CASE ~(clear /\ n <= _total_bits)
  <2>1. UNCHANGED <<_map, marked>>
    BY <1>3 DEF Map!KeepMemory, BitInv
  <2> QED BY <1>1, <2>1 DEF BitInv, Running, Map!calc_words, Map!word_index_align_up, Map!word_index_align_down
<1> QED BY <1>2, <1>3

(* A thread that clears a bit with others: the word it saw is still there. *)
LEMMA BitTries ==
    ASSUME BitInv, NEW t \in Threads, NEW x \in 0..(_total_bits - 1), NEW sets \in BOOLEAN,
           NEW old, Map!Tries(t, x, sets, old), UNCHANGED <<_map, _total_bits, marked>>,
           ~par_set' => ~par_set /\ ~sets
    PROVE  BitInv'
<1>1. DOMAIN par' = Threads /\ \A u \in Threads \ {t} : par'[u] = par[u]
  BY DEF Map!Tries, BitInv
<1>2. par'[t].runs => par'[t].bit = x /\ par'[t].sets = sets
  BY DEF Map!Tries, BitInv, Map!NoCall
<1>3. \A u \in Threads : Running(u)'
  BY <1>1, <1>2 DEF Running, BitInv
<1>4. ~par_set' => \A u \in Threads : par'[u].runs => ~par'[u].sets
  BY <1>1, <1>2 DEF BitInv
<1> QED BY <1>1, <1>3, <1>4 DEF BitInv, Map!calc_words, Map!word_index_align_up, Map!word_index_align_down

LEMMA BitCas ==
    ASSUME BitInv, NEW t \in Threads, Map!ParCas(t)
    PROVE  BitInv'
<1> DEFINE x == par[t].bit
           sets == par[t].sets
           w == x \div BitsPerWord
           o == x % BitsPerWord
<1>1. par[t].runs /\ UNCHANGED <<_total_bits, par_set>>
  BY DEF Map!ParCas
<1>2. x \in 0..(_total_bits - 1) /\ sets \in BOOLEAN /\ _total_bits \in Nat
  BY <1>1 DEF BitInv, Running
<1>3. w \in DOMAIN _map /\ o \in Offsets
  <2> HIDE DEF x
  <2>1. w \in 0..(Map!calc_words(_total_bits) - 1) /\ o \in Offsets
    BY <1>2, WordOfBit
  <2> QED BY <2>1 DEF BitInv
<1>4. CASE _map[w] = par[t].old_val
  <2>1. /\ _map' = [_map EXCEPT ![w] = Map!new_val(_map[w], x, sets)]
        /\ marked' = IF sets THEN marked \cup {x} ELSE marked \ {x}
        /\ par' = [par EXCEPT ![t] = Map!NoCall]
    BY <1>4 DEF Map!ParCas, Map!word_index_align_down
  <2>2. Map!new_val(_map[w], x, sets) \subseteq Offsets
        /\ (~sets => Map!new_val(_map[w], x, sets) = _map[w] \ {o})
    BY <1>3 DEF Map!new_val, Map!word_offset_in_word, BitInv
  <2>3. _map' \in [DOMAIN _map -> SUBSET Offsets]
    BY <1>3, <2>1, <2>2 DEF BitInv
  <2>4. DOMAIN par' = Threads /\ \A u \in Threads : par'[u].runs => u # t /\ par'[u] = par[u]
    BY <2>1 DEF Map!NoCall, BitInv
  <2>5. \A u \in Threads : Running(u)'
    BY <1>1, <2>4 DEF Running, BitInv
  <2>6. ASSUME ~sets, NEW y \in 0..(_total_bits - 1)
        PROVE  BitOf(_map', y) <=> BitOf(_map, y) /\ y # x
    <3> DEFINE v == y \div BitsPerWord
               p == y % BitsPerWord
    <3>1. v \in DOMAIN _map
      BY <1>2, WordOfBit DEF BitInv
    <3>2. _map'[v] = IF v = w THEN _map[w] \ {o} ELSE _map[v]
      BY <1>3, <2>1, <2>2, <2>6, <3>1
    <3>3. y = x <=> v = w /\ p = o
      <4>1. y \in Nat /\ x \in Nat
        BY <1>2
      <4>2. y = (v * BitsPerWord) + p
        BY <4>1, Division
      <4>3. x = (w * BitsPerWord) + o
        <5> HIDE DEF x
        <5> QED BY <4>1, Division
      <4> HIDE DEF v, p, w, o
      <4>4. v = w /\ p = o => y = x
        BY <4>2, <4>3
      <4> QED BY <4>4 DEF v, p, w, o
    <3> QED BY <3>2, <3>3 DEF BitOf
  <2>7. ~par_set => ~sets
    BY <1>1 DEF BitInv
  <2> HIDE DEF x, sets, w, o
  <2>8. ~par_set => marked' = marked \ {x}
    BY <2>1, <2>7
  <2>9. ~par_set' => /\ marked' \subseteq 0..(_total_bits - 1)
                     /\ \A y \in 0..(_total_bits - 1) : BitOf(_map', y) <=> y \in marked'
                     /\ \A u \in Threads : par'[u].runs => ~par'[u].sets
    BY <1>1, <2>4, <2>6, <2>7, <2>8 DEF BitInv
  <2>10. (Map!calc_words(_total_bits))' = Map!calc_words(_total_bits)
    BY <1>1 DEF Map!calc_words, Map!word_index_align_up, Map!word_index_align_down
  <2>11. _map' \in [0..(Map!calc_words(_total_bits)' - 1) -> SUBSET Offsets]
    BY <2>3, <2>10 DEF BitInv
  <2> QED BY <1>1, <1>2, <2>4, <2>5, <2>9, <2>11 DEF BitInv
<1>5. CASE _map[w] # par[t].old_val
  <2>1. Map!Tries(t, x, sets, _map[w]) /\ UNCHANGED <<_map, marked>>
    BY <1>5 DEF Map!ParCas, Map!word_index_align_down
  <2>2. ~par_set => ~sets
    BY <1>1 DEF BitInv
  <2>3. par_set' = par_set
    BY <1>1
  <2> QED BY <1>1, <1>2, <2>1, <2>2, <2>3, BitTries
<1> QED BY <1>4, <1>5

LEMMA BitStep == BitInv /\ [Map!Next]_(Map!vars) => BitInv'
<1> SUFFICES ASSUME BitInv, [Map!Next]_(Map!vars) PROVE BitInv'
  OBVIOUS
<1>1. 0..MaxBits \subseteq Nat
  BY ContainersAssumption
<1>2. ASSUME NEW b \in 0..MaxBits, NEW e \in 0..MaxBits, Map!set_range(b, e) PROVE BitInv'
  BY <1>1, <1>2, BitSetRange
<1>3. ASSUME NEW b \in 0..MaxBits, NEW e \in 0..MaxBits, Map!clear_range(b, e) PROVE BitInv'
  BY <1>1, <1>3, BitClearRange DEF Map!clear_range
<1>4. ASSUME NEW n \in 0..MaxBits, NEW clear \in BOOLEAN, Map!Reallocate(n, clear) PROVE BitInv'
  BY <1>1, <1>4, BitReallocate
<1>5. ASSUME NEW n \in 0..MaxBits, NEW clear \in BOOLEAN, Map!KeepMemory(n, clear) PROVE BitInv'
  BY <1>1, <1>5, BitKeepMemory
<1>6. ASSUME NEW t \in Threads, NEW x \in 0..MaxBits, NEW sets \in BOOLEAN, Map!ParLoad(t, x, sets)
      PROVE  BitInv'
  <2>1. x \in 0..(_total_bits - 1)
    BY <1>1, <1>6 DEF Map!ParLoad, BitInv
  <2>2. /\ Map!Tries(t, x, sets, _map[Map!word_index_align_down(x)])
        /\ UNCHANGED <<_map, _total_bits, marked>> /\ par_set' = (par_set \/ sets)
    BY <1>6 DEF Map!ParLoad
  <2> QED BY <2>1, <2>2, BitTries
<1>7. ASSUME NEW t \in Threads, Map!ParCas(t) PROVE BitInv'
  BY <1>7, BitCas
<1>8. CASE UNCHANGED Map!vars
  BY <1>8 DEF Map!vars, BitInv, Running, Map!calc_words, Map!word_index_align_up, Map!word_index_align_down
<1> QED
  BY <1>2, <1>3, <1>4, <1>5, <1>6, <1>7, <1>8 DEF Map!Next

(* A range counts the places of its marked bits.                           *)
LEMMA RangeCounted ==
    ASSUME BitInv, ~par_set, NEW e \in 0.._total_bits, NEW b \in 0..e
    PROVE  Map!count_range(b, e) = Map!Cardinality(marked \cap Map!Bits(b, e))
<1> DEFINE M == marked \cap b..(e - 1)
           U == UNION {{w} \X (_map[w] \cap Map!touched(w, b, e)) : w \in DOMAIN _map}
           f == [x \in M |-> PlaceOf(x)]
<1>1. b \in Nat /\ e \in Nat /\ b <= e /\ _total_bits \in Nat
  BY DEF BitInv
<1>2. IsFiniteSet(M)
  <2>1. IsFiniteSet(b..(e - 1))
    BY <1>1, FS_Interval
  <2>2. M \in SUBSET (b..(e - 1))
    OBVIOUS
  <2> HIDE DEF M
  <2> QED BY <2>1, <2>2, FS_Subset
<1>3. ASSUME NEW w \in DOMAIN _map, NEW o \in Offsets
      PROVE  o \in Map!touched(w, b, e) <=> (w * BitsPerWord) + o \in b..(e - 1)
  <2>1. w \in Nat
    BY WordsOf DEF BitInv
  <2>2. o \in Map!touched(w, b, e) <=> b <= (w * BitsPerWord) + o /\ (w * BitsPerWord) + o < e
    BY <1>1, <2>1, Touched
  <2>3. (w * BitsPerWord) + o \in Nat
    BY <2>1, BitAt
  <2> QED BY <1>1, <2>2, <2>3
<1>4. ASSUME NEW x \in M
      PROVE  /\ x \in Nat /\ x \div BitsPerWord \in DOMAIN _map /\ x % BitsPerWord \in Offsets
             /\ x = ((x \div BitsPerWord) * BitsPerWord) + (x % BitsPerWord)
             /\ PlaceOf(x) \in U
  <2>1. x \in Nat /\ x \in 0..(_total_bits - 1) /\ x \in marked /\ x \in b..(e - 1)
    BY <1>1 DEF BitInv
  <2>2. /\ x \div BitsPerWord \in DOMAIN _map /\ x % BitsPerWord \in Offsets
        /\ x = ((x \div BitsPerWord) * BitsPerWord) + (x % BitsPerWord)
    BY <2>1, WordOfBit, Division DEF BitInv
  <2>3. x % BitsPerWord \in Map!touched(x \div BitsPerWord, b, e)
    BY <1>3, <2>1, <2>2
  <2>4. x % BitsPerWord \in _map[x \div BitsPerWord]
    BY <2>1 DEF BitInv, BitOf
  <2> QED BY <2>1, <2>2, <2>3, <2>4 DEF PlaceOf
<1>5. ASSUME NEW u \in U PROVE \E x \in M : PlaceOf(x) = u
  <2>1. PICK w \in DOMAIN _map : u \in {w} \X (_map[w] \cap Map!touched(w, b, e))
    OBVIOUS
  <2>2. PICK o \in _map[w] \cap Map!touched(w, b, e) : u = <<w, o>>
    BY <2>1
  <2>3. w \in Nat /\ o \in Offsets
    BY WordsOf DEF BitInv
  <2> DEFINE x == (w * BitsPerWord) + o
  <2>4. x \in b..(e - 1)
    BY <1>3, <2>2, <2>3
  <2>5. x \div BitsPerWord = w /\ x % BitsPerWord = o
    BY <2>3, BitAt
  <2> HIDE DEF x
  <2>6. x \in 0..(_total_bits - 1)
    BY <1>1, <2>4
  <2>7. x \in marked
    BY <2>2, <2>5, <2>6 DEF BitInv, BitOf
  <2> QED BY <2>2, <2>4, <2>5, <2>7 DEF PlaceOf
<1>6. ASSUME NEW x \in M, NEW y \in M, PlaceOf(x) = PlaceOf(y) PROVE x = y
  BY <1>4, <1>6 DEF PlaceOf
<1> HIDE DEF M, U
<1>7. f \in [M -> U] /\ (\A x, y \in M : f[x] = f[y] => x = y) /\ (\A u \in U : \E x \in M : f[x] = u)
  BY <1>4, <1>5, <1>6
<1>8. ExistsBijection(M, U)
  <2> HIDE DEF f
  <2> QED BY <1>7 DEF ExistsBijection, Bijection, Injection, Surjection, IsInjective
<1>9. Cardinality(U) = Cardinality(M)
  BY <1>2, <1>8, FS_Bijection
<1>10. Map!count_range(b, e) = Map!Cardinality(U) /\ marked \cap Map!Bits(b, e) = M
  BY DEF Map!count_range, Map!Words, Map!Bits, U, M
<1> QED BY <1>9, <1>10, SameMapCardinality

(* Ranges and single bits change exactly the bits that they name, whatever *)
(* the width of a word and the size of the map, and clearing threads lose  *)
(* nothing of each other (BitMap.cpp:20-69, 94).                           *)
THEOREM MapBitsExact == Map!Spec => []BitsExact
<1>1. BitInv => BitsExact
  <2> SUFFICES ASSUME BitInv, ~par_set
               PROVE  /\ \A x \in Map!Bits(0, _total_bits) : Map!at(x) = (x \in marked)
                      /\ \A e \in 0.._total_bits : \A b \in 0..e :
                           Map!count_range(b, e) = Map!Cardinality(marked \cap Map!Bits(b, e))
    BY DEF BitsExact, Map!BitsExact
  <2>1. ASSUME NEW x \in Map!Bits(0, _total_bits) PROVE Map!at(x) = (x \in marked)
    <3>1. x \in 0..(_total_bits - 1)
      BY DEF Map!Bits
    <3>2. BitOf(_map, x) <=> x \in marked
      BY <3>1 DEF BitInv
    <3>3. Map!at(x) <=> BitOf(_map, x)
      BY DEF Map!at, Map!word_offset_in_word, Map!word_index_align_down, BitOf
    <3>4. Map!at(x) \in BOOLEAN
      BY DEF Map!at
    <3> QED BY <3>2, <3>3, <3>4
  <2> QED BY <2>1, RangeCounted
<1> QED BY <1>1, BitInit, BitStep, PTL DEF Map!Spec

-----------------------------------------------------------------------------
(* The C heap: sums over blocks.                                           *)

LEMMA SameHeapCardinality == \A S : Heap!Cardinality(S) = Cardinality(S)
BY DEF Heap!Cardinality, Cardinality

(* g adds up the usable bytes of memory over the subsets of A.             *)
Adds(g, memory, A) ==
    /\ g \in [SUBSET A -> Nat]
    /\ g[{}] = 0
    /\ \A s \in SUBSET A : \A x \in A \ s : g[s \cup {x}] = g[s] + memory[x].usable

(* What the sum is computed by: a block is chosen, the others are summed.  *)
Recursive(f, memory, A) ==
    f = [s \in SUBSET A |->
           IF s = {} THEN 0
           ELSE memory[CHOOSE x \in s : TRUE].usable + f[s \ {CHOOSE x \in s : TRUE}]]

LEMMA BytesRecursive ==
    ASSUME NEW memory, NEW A
    PROVE  Heap!Bytes(memory, A) = (CHOOSE f : Recursive(f, memory, A))[A]
BY DEF Heap!Bytes, Heap!MapThenSumSet, Heap!MapThenFoldSet, Recursive

LEMMA AdderExists ==
    ASSUME NEW memory, NEW A, IsFiniteSet(A), \A a \in A : memory[a].usable \in Nat
    PROVE  \E g : Adds(g, memory, A)
<1> DEFINE T == {n \in Nat : \E S \in SUBSET A : Cardinality(S) = n /\ ~\E g : Adds(g, memory, S)}
<1> SUFFICES ASSUME ~\E g : Adds(g, memory, A) PROVE FALSE
  OBVIOUS
<1>1. Cardinality(A) \in T
  BY FS_CardinalityType
<1>2. PICK n \in T : \A k \in T : n <= k
  <2> T \in SUBSET Nat
    OBVIOUS
  <2> HIDE DEF T
  <2> QED BY <1>1, LeastElement
<1>3. PICK S \in SUBSET A : Cardinality(S) = n /\ ~\E g : Adds(g, memory, S)
  OBVIOUS
<1>4. IsFiniteSet(S)
  BY FS_Subset
<1>5. S # {}
  <2> DEFINE z == [s \in SUBSET {} |-> 0]
  <2>1. SUBSET {} = {{}}
    OBVIOUS
  <2>2. Adds(z, memory, {})
    BY <2>1 DEF Adds
  <2> QED BY <1>3, <2>2
<1>6. PICK y \in S : TRUE
  BY <1>5
<1> DEFINE R == S \ {y}
<1>7. IsFiniteSet(R) /\ Cardinality(R) = n - 1 /\ n \in Nat
  BY <1>3, <1>4, <1>6, FS_RemoveElement, FS_CardinalityType
<1>8. PICK h : Adds(h, memory, R)
  <2>1. Cardinality(R) \in Nat
    BY <1>7, FS_CardinalityType
  <2>2. n - 1 \notin T
    BY <1>2, <1>7
  <2> QED BY <1>7, <2>1, <2>2
<1> DEFINE g == [s \in SUBSET S |-> IF y \in s THEN h[s \ {y}] + memory[y].usable ELSE h[s]]
<1>9. memory[y].usable \in Nat
  BY <1>6
<1>10. \A s \in SUBSET S : (y \notin s => s \in SUBSET R) /\ s \ {y} \in SUBSET R
  OBVIOUS
<1>11. h \in [SUBSET R -> Nat] /\ h[{}] = 0
  BY <1>8 DEF Adds
<1>12. g \in [SUBSET S -> Nat] /\ g[{}] = 0
  <2> HIDE DEF R
  <2> QED BY <1>9, <1>10, <1>11
<1>13. ASSUME NEW s \in SUBSET S, NEW x \in S \ s
       PROVE  g[s \cup {x}] = g[s] + memory[x].usable
  <2>1. s \cup {x} \in SUBSET S /\ memory[x].usable \in Nat
    OBVIOUS
  <2>2. g[s] = (IF y \in s THEN h[s \ {y}] + memory[y].usable ELSE h[s])
        /\ g[s \cup {x}] = IF y \in s \cup {x} THEN h[(s \cup {x}) \ {y}] + memory[y].usable
                           ELSE h[s \cup {x}]
    BY <2>1
  <2>3. CASE x = y
    <3>1. (s \cup {x}) \ {y} = s /\ y \notin s
      BY <2>3
    <3> QED BY <2>2, <2>3, <3>1
  <2>4. CASE x # y /\ y \in s
    <3>1. (s \cup {x}) \ {y} = (s \ {y}) \cup {x} /\ x \in R \ (s \ {y}) /\ s \ {y} \in SUBSET R
      BY <2>4
    <3>2. h[(s \ {y}) \cup {x}] = h[s \ {y}] + memory[x].usable /\ h[s \ {y}] \in Nat
      BY <1>8, <3>1 DEF Adds
    <3> HIDE DEF R, g
    <3>3. g[s \cup {x}] = (h[s \ {y}] + memory[x].usable) + memory[y].usable
      BY <2>2, <2>4, <3>1, <3>2
    <3>4. g[s] = h[s \ {y}] + memory[y].usable
      BY <2>2, <2>4
    <3> QED BY <1>9, <2>1, <3>2, <3>3, <3>4
  <2>5. CASE x # y /\ y \notin s
    <3>1. x \in R \ s /\ s \in SUBSET R /\ y \notin s \cup {x}
      BY <2>5
    <3>2. h[s \cup {x}] = h[s] + memory[x].usable
      BY <1>8, <3>1 DEF Adds
    <3> QED BY <2>2, <2>5, <3>1, <3>2
  <2> QED BY <2>3, <2>4, <2>5
<1>14. Adds(g, memory, S)
  <2> HIDE DEF g
  <2> QED BY <1>12, <1>13 DEF Adds
<1> QED BY <1>3, <1>14

(* Whatever adds up the bytes, it adds up to the sum.                      *)
LEMMA BytesAdded ==
    ASSUME NEW memory, NEW A, IsFiniteSet(A), \A a \in A : memory[a].usable \in Nat,
           NEW g, Adds(g, memory, A)
    PROVE  Heap!Bytes(memory, A) = g[A]
<1> DEFINE c(s) == CHOOSE x \in s : TRUE
<1>1. ASSUME NEW s \in SUBSET A, s # {}
      PROVE  /\ c(s) \in s /\ s \ {c(s)} \in SUBSET A
             /\ g[s] = memory[c(s)].usable + g[s \ {c(s)}]
             /\ g[s] \in Nat /\ g[s \ {c(s)}] \in Nat
  <2>1. c(s) \in s
    BY <1>1
  <2> DEFINE y == c(s)
             r == s \ {y}
  <2> HIDE DEF y, c
  <2>2. y \in s /\ y \in A \ r /\ r \in SUBSET A /\ r \cup {y} = s
    BY <2>1 DEF y
  <2>3. g[r \cup {y}] = g[r] + memory[y].usable
    BY <2>2 DEF Adds
  <2>4. g[r] \in Nat /\ g[s] \in Nat
    BY <2>2 DEF Adds
  <2>5. memory[y].usable \in Nat
    BY <2>2
  <2>6. g[s] = memory[y].usable + g[r]
    <3>1. g[s] = g[r] + memory[y].usable
      BY <2>2, <2>3, Zenon
    <3> HIDE DEF r
    <3> QED BY <2>4, <2>5, <3>1
  <2> QED
    BY <2>2, <2>4, <2>6 DEF y
<1>2. Recursive(g, memory, A)
  <2>1. g \in [SUBSET A -> Nat] /\ g[{}] = 0
    BY DEF Adds
  <2> QED BY <1>1, <2>1 DEF Recursive
<1> DEFINE f == CHOOSE h : Recursive(h, memory, A)
<1>3. Recursive(f, memory, A)
  BY <1>2
<1> HIDE DEF f
<1>4. f[{}] = 0 /\ \A s \in SUBSET A : s # {} => f[s] = memory[c(s)].usable + f[s \ {c(s)}]
  <2> HIDE DEF c
  <2>1. f = [s \in SUBSET A |-> IF s = {} THEN 0 ELSE memory[c(s)].usable + f[s \ {c(s)}]]
    BY <1>3 DEF Recursive, c
  <2> QED BY <2>1
<1> DEFINE T == {n \in Nat : \E s \in SUBSET A : Cardinality(s) = n /\ f[s] # g[s]}
<1>5. ASSUME f[A] # g[A] PROVE FALSE
  <2>1. Cardinality(A) \in T
    BY <1>5, FS_CardinalityType
  <2>2. PICK n \in T : \A k \in T : n <= k
    <3> T \in SUBSET Nat
      OBVIOUS
    <3> HIDE DEF T
    <3> QED BY <2>1, LeastElement
  <2>3. PICK s \in SUBSET A : Cardinality(s) = n /\ f[s] # g[s]
    OBVIOUS
  <2>4. s # {}
    BY <1>4, <2>3 DEF Adds
  <2> DEFINE r == s \ {c(s)}
  <2>5. c(s) \in s
    BY <1>1, <2>4
  <2> HIDE DEF c
  <2>6. IsFiniteSet(s) /\ IsFiniteSet(r) /\ Cardinality(r) = n - 1 /\ n \in Nat
    BY <2>3, <2>5, FS_Subset, FS_RemoveElement
  <2>7. Cardinality(r) \in Nat
    BY <2>6, FS_CardinalityType
  <2>8. n - 1 \notin T
    BY <2>2, <2>6
  <2>9. f[r] = g[r]
    BY <2>6, <2>7, <2>8
  <2> QED BY <1>1, <1>4, <2>3, <2>4, <2>9
<1> QED BY <1>5, BytesRecursive DEF f

LEMMA BytesEmpty == ASSUME NEW memory PROVE Heap!Bytes(memory, {}) = 0
<1>1. IsFiniteSet({})
  BY FS_EmptySet
<1>2. PICK g : Adds(g, memory, {})
  BY <1>1, AdderExists
<1> QED BY <1>1, <1>2, BytesAdded DEF Adds

LEMMA BytesPlus ==
    ASSUME NEW memory, NEW A, IsFiniteSet(A), \A a \in A : memory[a].usable \in Nat,
           NEW x, x \notin A, memory[x].usable \in Nat
    PROVE  /\ Heap!Bytes(memory, A \cup {x}) = Heap!Bytes(memory, A) + memory[x].usable
           /\ Heap!Bytes(memory, A) \in Nat
<1> DEFINE B == A \cup {x}
<1>1. IsFiniteSet(B) /\ \A a \in B : memory[a].usable \in Nat
  BY FS_AddElement
<1>2. PICK g : Adds(g, memory, B)
  <2> HIDE DEF B
  <2> QED BY <1>1, AdderExists
<1> DEFINE h == [s \in SUBSET A |-> g[s]]
<1>3. Adds(h, memory, A)
  BY <1>2 DEF Adds
<1>4. Heap!Bytes(memory, A) = h[A]
  <2> HIDE DEF h
  <2> QED BY <1>3, BytesAdded
<1>5. Heap!Bytes(memory, B) = g[B]
  <2> HIDE DEF B
  <2> QED BY <1>1, <1>2, BytesAdded
<1>6. g[A] \in Nat /\ g[B] = g[A] + memory[x].usable
  BY <1>2 DEF Adds
<1> QED BY <1>4, <1>5, <1>6

LEMMA BytesSame ==
    ASSUME NEW memory, NEW other, NEW A, IsFiniteSet(A),
           \A a \in A : memory[a].usable \in Nat /\ other[a].usable = memory[a].usable
    PROVE  Heap!Bytes(other, A) = Heap!Bytes(memory, A)
<1>1. PICK g : Adds(g, memory, A)
  BY AdderExists
<1>2. Adds(g, other, A)
  BY <1>1 DEF Adds
<1> QED BY <1>1, <1>2, BytesAdded

-----------------------------------------------------------------------------
(* The C heap: a block is its owner's or in the hands of one call.         *)

Places == {"idle", "order", "log", "bytes", "count", "done"}
Calls == [pc : Places, type : {"none", "alloc", "free"}, F : MEMFLAG \cup {null},
          addr : Addresses \cup {null}, bytes : Nat, order : Nat]
Records == [type : {"alloc", "free"}, addr : Addresses \cup {null}, bytes : Nat, order : Nat]
Memories == [Addresses -> [usable : Nat, F : MEMFLAG \cup {null}]]

HeapTypes ==
    /\ block \in Memories /\ live \subseteq Addresses /\ early \subseteq Addresses
    /\ _nmt_level \in Levels \cup {"unknown"}
    /\ _native_alloc \in [MEMFLAG -> Int] /\ _native_count \in [MEMFLAG -> Int]
    /\ _next_order_id \in Nat /\ log \in Seq(Records)
    /\ call \in [Threads -> Calls]

Resting(c) == c.pc = "idle" /\ c.addr = null /\ c.F = null
Working(c, memory, held, old) ==
    /\ c.pc # "idle" /\ c.type # "none" /\ c.addr \in Addresses \ held
    /\ c.F = memory[c.addr].F /\ c.F # null
    /\ c.F \notin old => c.bytes = memory[c.addr].usable
    /\ memory[c.addr].usable > 0
Nulling(c, old) == c.pc # "idle" /\ c.type = "free" /\ c.addr = null /\ c.F \in old /\ c.F # null
Owners ==
    /\ \A a \in live : block[a].F # null /\ block[a].usable > 0
    /\ \A t \in Threads :
          Resting(call[t]) \/ Working(call[t], block, live, odd) \/ Nulling(call[t], odd)
    /\ \A t, u \in Threads : call[t].addr = call[u].addr => call[t].addr = null \/ t = u

(* Before the tracing begins, calls record nothing; only with details are  *)
(* there records in the log.                                               *)
Untraced ==
    /\ _nmt_level # "detail" =>
         log = <<>> /\ \A t \in Threads : call[t].pc \notin {"order", "log"}
    /\ _nmt_level = "unknown" =>
         /\ _native_alloc = [F \in MEMFLAG |-> 0] /\ _native_count = [F \in MEMFLAG |-> 0]
         /\ \A t \in Threads : call[t].pc # "idle" => call[t].pc = "done" /\ call[t].F \in odd
         /\ \A t \in Threads : call[t].addr \in early \cup {null}
         /\ \A a \in live : block[a].F \in odd /\ a \in early

(* A call has made a step if it is at one of the places after it.  Until a *)
(* call to free has made the step, and once one to allocate has, the step  *)
(* takes the block for one in use.                                         *)
AfterLog   == {"bytes", "count", "done"}
AfterBytes == {"count", "done"}
AfterCount == {"done"}
Seen(after, c) == IF c.type = "alloc" THEN c.pc \in after ELSE c.pc \notin after
Present(after, held, calls) ==
    {a \in Addresses : a \in held \/ \E t \in Threads : calls[t].addr = a /\ Seen(after, calls[t])}
Tagged(F, memory, A) == {a \in A : memory[a].F = F}

(* The last record of an address is of its allocation while the log takes  *)
(* the block for one in use, and of its release otherwise.                 *)
LastIs(h, a, type) ==
    \E j \in 1..Len(h) : /\ h[j].addr = a /\ h[j].type = type
                         /\ \A k \in (j + 1)..Len(h) : h[k].addr # a
NoneOf(h, a) == \A j \in 1..Len(h) : h[j].addr # a
Recorded ==
    _nmt_level \in {"unknown", "detail"} =>
      \A a \in Addresses :
        IF a \in Present(AfterLog, live, call)
        THEN LastIs(log, a, "alloc") \/ (NoneOf(log, a) /\ a \in early)
        ELSE LastIs(log, a, "free") \/ NoneOf(log, a)

(* The counters are the blocks they take for ones in use.                  *)
TalliedFor(F) ==
    /\ _native_count[F] = Cardinality(Tagged(F, block, Present(AfterCount, live, call)))
    /\ _native_alloc[F] = Heap!Bytes(block, Tagged(F, block, Present(AfterBytes, live, call)))
Tallied ==
    _nmt_level \in {"unknown", "summary", "detail"} => \A F \in MEMFLAG \ odd : TalliedFor(F)

HeapInv == HeapTypes /\ Owners /\ Untraced /\ Recorded /\ Tallied /\ HistoryAlternates

LEMMA UsableBytes ==
    ASSUME NEW bytes \in Nat \ {0}
    PROVE  Heap!usable(bytes) \in Nat /\ Heap!usable(bytes) > 0
<1> DEFINE x == bytes + Grain - 1
           q == x \div Grain
<1>1. Grain \in Nat /\ Grain > 0 /\ x \in Nat /\ x >= Grain
  BY HeapAssumption
<1> HIDE DEF x
<1>2. q \in Nat /\ q >= 1
  BY <1>1
<1> HIDE DEF q
<1>3. q * Grain \in Nat /\ q * Grain >= Grain
  BY <1>1, <1>2
<1> QED BY <1>1, <1>3 DEF Heap!usable, q, x

(* Thread t's call becomes c, and nothing else happens but at address a.   *)
Moves(t, a, c) ==
    /\ call' = [call EXCEPT ![t] = c] /\ c \in Calls
    /\ call[t].addr \in {a, null} /\ c.addr \in {a, null}
    /\ \A u \in Threads \ {t} : call[u].addr # a
    /\ live' \ {a} = live \ {a} /\ live' \subseteq Addresses
    /\ block' \in Memories /\ \A b \in Addresses \ {a} : block'[b] = block[b]
    /\ odd \subseteq odd' /\ early \subseteq early' /\ early' \subseteq Addresses
    /\ a \in live' => block'[a].F # null /\ block'[a].usable > 0
    /\ Resting(c) \/ Working(c, block', live', odd')

LEMMA MovesOwners ==
    ASSUME HeapTypes, Owners, NEW t \in Threads, NEW a \in Addresses, NEW c, Moves(t, a, c)
    PROVE  Owners' /\ call' \in [Threads -> Calls]
<1>1. /\ call' = [call EXCEPT ![t] = c] /\ call \in [Threads -> Calls] /\ c \in Calls
      /\ null \notin Addresses
  BY HeapAssumption DEF Moves, HeapTypes
<1>2. call'[t] = c /\ \A u \in Threads \ {t} : call'[u] = call[u]
  BY <1>1
<1>3. call' \in [Threads -> Calls]
  BY <1>1
<1>4. \A b \in live' : block'[b].F # null /\ block'[b].usable > 0
  BY DEF Moves, Owners
<1>5. ASSUME NEW u \in Threads
      PROVE  Resting(call'[u]) \/ Working(call'[u], block', live', odd') \/ Nulling(call'[u], odd')
  <2>1. CASE u = t
    BY <1>2, <2>1 DEF Moves
  <2>4. CASE u # t /\ Nulling(call[u], odd)
    BY <1>2, <2>4 DEF Moves, Nulling
  <2>2. CASE u # t /\ Resting(call[u])
    BY <1>2, <2>2
  <2>3. CASE u # t /\ Working(call[u], block, live, odd)
    <3>1. call[u].addr \in Addresses \ {a} /\ call[u].addr \notin live' /\ call'[u] = call[u]
          /\ block'[call[u].addr] = block[call[u].addr]
      BY <1>2, <2>3 DEF Moves, Working
    <3> QED BY <2>3, <3>1 DEF Working, Moves
  <2> QED BY <2>1, <2>2, <2>3, <2>4 DEF Owners
<1>6. ASSUME NEW u \in Threads, NEW v \in Threads, call'[u].addr = call'[v].addr
      PROVE  call'[u].addr = null \/ u = v
  BY <1>1, <1>2, <1>6 DEF Moves, Owners
<1> QED BY <1>3, <1>4, <1>5, <1>6 DEF Owners

LEMMA MovesPresent ==
    ASSUME HeapTypes, NEW t \in Threads, NEW a \in Addresses, NEW c, Moves(t, a, c), NEW after
    PROVE  /\ \A b \in Addresses \ {a} : b \in Present(after, live', call') <=> b \in Present(after, live, call)
           /\ a \in Present(after, live, call) <=> a \in live \/ (call[t].addr = a /\ Seen(after, call[t]))
           /\ a \in Present(after, live', call') <=> a \in live' \/ (c.addr = a /\ Seen(after, c))
<1>1. /\ call' = [call EXCEPT ![t] = c] /\ call \in [Threads -> Calls] /\ null \notin Addresses
      /\ call[t].addr \in {a, null} /\ c.addr \in {a, null}
      /\ \A u \in Threads \ {t} : call[u].addr # a
  BY HeapAssumption DEF Moves, HeapTypes
<1>2. call'[t] = c /\ \A u \in Threads \ {t} : call'[u] = call[u]
  BY <1>1
<1>3. ASSUME NEW b \in Addresses \ {a}
      PROVE  b \in Present(after, live', call') <=> b \in Present(after, live, call)
  <2>1. b \in live' <=> b \in live
    BY DEF Moves
  <2>2. \A u \in Threads : call'[u].addr = b <=> call[u].addr = b
    BY <1>1, <1>2
  <2>3. \A u \in Threads : call'[u].addr = b => call'[u] = call[u]
    BY <1>1, <1>2
  <2> QED BY <2>1, <2>2, <2>3 DEF Present
<1>4. a \in Present(after, live, call) <=> a \in live \/ (call[t].addr = a /\ Seen(after, call[t]))
  BY <1>1 DEF Present
<1>5. a \in Present(after, live', call') <=> a \in live' \/ (c.addr = a /\ Seen(after, c))
  BY <1>1, <1>2 DEF Present
<1> QED BY <1>3, <1>4, <1>5

LEMMA TaggedFinite ==
    ASSUME HeapTypes, NEW F, NEW after
    PROVE  /\ IsFiniteSet(Tagged(F, block, Present(after, live, call)))
           /\ \A a \in Tagged(F, block, Present(after, live, call)) : block[a].usable \in Nat
<1> DEFINE A == Tagged(F, block, Present(after, live, call))
<1>1. A \in SUBSET Addresses
  BY DEF Tagged, Present
<1>2. IsFiniteSet(A)
  BY <1>1, HeapAssumption, FS_Subset
<1>3. \A a \in A : block[a].usable \in Nat
  BY <1>1 DEF HeapTypes, Memories
<1> QED BY <1>2, <1>3

(* What t and a contribute to the blocks with a tag stays as it is.        *)
Keeps(t, a, c, F, after) ==
    /\ a \in Present(after, live', call') /\ block'[a].F = F
         <=> a \in Present(after, live, call) /\ block[a].F = F
    /\ a \in Present(after, live, call) /\ block[a].F = F => block'[a].usable = block[a].usable

LEMMA TagKept ==
    ASSUME HeapTypes, NEW t \in Threads, NEW a \in Addresses, NEW c, Moves(t, a, c),
           NEW F, NEW after, Keeps(t, a, c, F, after)
    PROVE  /\ Tagged(F, block', Present(after, live', call')) = Tagged(F, block, Present(after, live, call))
           /\ Heap!Bytes(block', Tagged(F, block', Present(after, live', call')))
                = Heap!Bytes(block, Tagged(F, block, Present(after, live, call)))
<1> DEFINE P == Present(after, live, call)
           Q == Present(after, live', call')
           A == Tagged(F, block, P)
           B == Tagged(F, block', Q)
<1>1. P \subseteq Addresses /\ Q \subseteq Addresses
  BY DEF Present
<1>2. \A b \in Addresses \ {a} : (b \in Q <=> b \in P) /\ block'[b] = block[b]
  BY MovesPresent DEF Moves
<1>3. /\ a \in Q /\ block'[a].F = F <=> a \in P /\ block[a].F = F
      /\ a \in P /\ block[a].F = F => block'[a].usable = block[a].usable
  BY DEF Keeps
<1>4. IsFiniteSet(A) /\ \A b \in A : block[b].usable \in Nat
  BY TaggedFinite
<1> HIDE DEF P, Q
<1>5. B = A
  BY <1>1, <1>2, <1>3 DEF Tagged
<1>6. \A b \in A : block'[b].usable = block[b].usable
  BY <1>1, <1>2, <1>3 DEF Tagged
<1> HIDE DEF A, B
<1>7. Heap!Bytes(block', A) = Heap!Bytes(block, A)
  <2> DEFINE other == block'
  <2>1. \A b \in A : block[b].usable \in Nat /\ other[b].usable = block[b].usable
    BY <1>4, <1>6
  <2> HIDE DEF other
  <2>2. Heap!Bytes(other, A) = Heap!Bytes(block, A)
    BY <1>4, <2>1, BytesSame
  <2> QED BY <2>2 DEF other
<1> QED BY <1>5, <1>7 DEF P, Q, A, B

LEMMA HistoryKept ==
    ASSUME HistoryAlternates, log' = log, early \subseteq early'
    PROVE  HistoryAlternates'
BY DEF HistoryAlternates, Heap!HistoryAlternates, Heap!First, Heap!Consecutive

LEMMA UntracedKept ==
    ASSUME HeapTypes, Untraced, NEW t \in Threads, NEW a \in Addresses, NEW c, Moves(t, a, c),
           UNCHANGED _nmt_level,
           _nmt_level # "detail" => log' = log /\ c.pc \notin {"order", "log"},
           _nmt_level = "unknown" =>
              /\ UNCHANGED <<_native_alloc, _native_count>>
              /\ c.pc # "idle" => c.pc = "done" /\ c.F \in odd'
              /\ c.addr \in early' \cup {null}
              /\ a \in live' => block'[a].F \in odd' /\ a \in early'
    PROVE  Untraced'
<1>1. call'[t] = c /\ \A u \in Threads \ {t} : call'[u] = call[u]
  BY DEF Moves, HeapTypes
<1>2. _nmt_level # "detail" =>
        log' = <<>> /\ \A u \in Threads : call'[u].pc \notin {"order", "log"}
  BY <1>1 DEF Untraced
<1>3. ASSUME _nmt_level = "unknown"
      PROVE  /\ \A u \in Threads : call'[u].pc # "idle" => call'[u].pc = "done" /\ call'[u].F \in odd'
             /\ \A u \in Threads : call'[u].addr \in early' \cup {null}
             /\ \A b \in live' : block'[b].F \in odd' /\ b \in early'
  <2>1. odd \subseteq odd' /\ early \subseteq early'
    BY DEF Moves
  <2>2. \A u \in Threads : call'[u].pc # "idle" => call'[u].pc = "done" /\ call'[u].F \in odd'
    BY <1>1, <1>3, <2>1 DEF Untraced
  <2>3. ASSUME NEW b \in live', b # a PROVE b \in live /\ block'[b] = block[b]
    BY <2>3 DEF Moves
  <2>4. \A b \in live' : block'[b].F \in odd' /\ b \in early'
    BY <1>3, <2>1, <2>3 DEF Untraced
  <2>5. \A u \in Threads : call'[u].addr \in early' \cup {null}
    BY <1>1, <1>3, <2>1 DEF Untraced
  <2> QED BY <2>2, <2>4, <2>5
<1> QED BY <1>2, <1>3 DEF Untraced

LEMMA RecordedKept ==
    ASSUME HeapTypes, Recorded, NEW t \in Threads, NEW a \in Addresses, NEW c, Moves(t, a, c),
           UNCHANGED <<_nmt_level, log>>,
           _nmt_level \in {"unknown", "detail"} =>
              \/ a \in Present(AfterLog, live', call') <=> a \in Present(AfterLog, live, call)
              \/ NoneOf(log, a) /\ a \in early'
    PROVE  Recorded'
<1> SUFFICES ASSUME _nmt_level' \in {"unknown", "detail"}, NEW b \in Addresses
             PROVE  IF b \in Present(AfterLog, live', call')
                    THEN LastIs(log', b, "alloc") \/ (NoneOf(log', b) /\ b \in early')
                    ELSE LastIs(log', b, "free") \/ NoneOf(log', b)
  BY DEF Recorded
<1>1. log' = log /\ early \subseteq early'
  BY DEF Moves
<1>2. IF b \in Present(AfterLog, live, call)
      THEN LastIs(log, b, "alloc") \/ (NoneOf(log, b) /\ b \in early)
      ELSE LastIs(log, b, "free") \/ NoneOf(log, b)
  BY DEF Recorded
<1>3. \/ b \in Present(AfterLog, live', call') <=> b \in Present(AfterLog, live, call)
      \/ NoneOf(log, b) /\ b \in early'
  BY MovesPresent
<1> QED BY <1>1, <1>2, <1>3

LEMMA TalliedKept ==
    ASSUME HeapTypes, Tallied, NEW t \in Threads, NEW a \in Addresses, NEW c, Moves(t, a, c),
           UNCHANGED <<_nmt_level, _native_alloc, _native_count>>,
           _nmt_level \in {"unknown", "summary", "detail"} =>
              \A F \in MEMFLAG \ odd' : Keeps(t, a, c, F, AfterCount) /\ Keeps(t, a, c, F, AfterBytes)
    PROVE  Tallied'
<1> SUFFICES ASSUME _nmt_level' \in {"unknown", "summary", "detail"}, NEW F \in MEMFLAG \ odd'
             PROVE  TalliedFor(F)'
  BY DEF Tallied
<1>1. F \in MEMFLAG \ odd /\ TalliedFor(F)
  BY DEF Tallied, Moves
<1>2. Tagged(F, block', Present(AfterCount, live', call')) = Tagged(F, block, Present(AfterCount, live, call))
  BY TagKept
<1>3. Heap!Bytes(block', Tagged(F, block', Present(AfterBytes, live', call')))
        = Heap!Bytes(block, Tagged(F, block, Present(AfterBytes, live, call)))
  BY TagKept
<1> QED BY <1>1, <1>2, <1>3 DEF TalliedFor

(* malloc gives a free address.                                            *)
LEMMA HeapAllocated ==
    ASSUME HeapInv, NEW t \in Threads, NEW a \in Addresses, NEW F \in MEMFLAG, NEW size \in Sizes,
           NEW bytes \in Nat, NEW c,
           Heap!Malloc(t, a, F, size), call' = [call EXCEPT ![t] = c],
           c = [pc |-> Heap!RecordStart, type |-> "alloc", F |-> F, addr |-> a,
                bytes |-> bytes, order |-> 0],
           odd' \in {odd, odd \cup {F}}, F \notin odd' => bytes = Heap!usable(size),
           _nmt_level = "unknown" => F \in odd',
           UNCHANGED <<live, _nmt_level, _native_alloc, _native_count, _next_order_id, log>>
    PROVE  HeapInv'
<1>1. /\ call[t].pc = "idle" /\ block[a].usable = 0
      /\ block' = [block EXCEPT ![a] = [usable |-> Heap!usable(size), F |-> F]]
      /\ early \subseteq early' /\ early' \subseteq early \cup {a}
      /\ _nmt_level = "unknown" => a \in early'
  BY DEF Heap!Malloc
<1>2. F # null /\ Heap!usable(size) \in Nat /\ Heap!usable(size) > 0 /\ null \notin Addresses
  BY UsableBytes, HeapAssumption
<1>3. HeapTypes /\ Owners /\ Untraced /\ Recorded /\ Tallied /\ HistoryAlternates
  BY DEF HeapInv
<1>4. /\ c.pc = Heap!RecordStart /\ c.type = "alloc" /\ c.F = F /\ c.addr = a /\ c.bytes = bytes
      /\ c.order = 0
  OBVIOUS
<1>5. _nmt_level \in {"off", "summary", "detail", "unknown"}
  BY <1>3, HeapAssumption DEF HeapTypes
<1>6. /\ _nmt_level = "detail" => c.pc = "order"
      /\ _nmt_level = "summary" => c.pc = "bytes"
      /\ _nmt_level \in {"unknown", "off"} => c.pc = "done"
  BY <1>4, <1>5 DEF Heap!RecordStart
<1>7. a \notin live /\ \A u \in Threads : call[u].addr # a
  BY <1>1, <1>2, <1>3 DEF Owners, Resting, Working, Nulling
<1>8. block' \in Memories /\ block'[a].F = F /\ block'[a].usable = Heap!usable(size)
      /\ \A b \in Addresses \ {a} : block'[b] = block[b]
  BY <1>1, <1>2, <1>3 DEF Memories, HeapTypes
<1>9. c \in Calls
  BY <1>5, <1>6 DEF Calls, Places
<1>10. call[t].addr = null
  BY <1>1, <1>3 DEF Owners, Resting, Working, Nulling
<1>11. Working(c, block', live', odd')
  BY <1>2, <1>4, <1>5, <1>6, <1>7, <1>8 DEF Working
<1>12. Moves(t, a, c)
  BY <1>1, <1>3, <1>4, <1>7, <1>8, <1>9, <1>10, <1>11 DEF Moves, HeapTypes
<1> HIDE DEF Moves
<1>13. Owners' /\ call' \in [Threads -> Calls]
  BY <1>3, <1>12, MovesOwners
<1>14. HeapTypes'
  BY <1>1, <1>3, <1>8, <1>13 DEF HeapTypes
<1>15. Untraced'
  <2>1. _nmt_level = "unknown" => a \notin live'
    BY <1>7
  <2>2. _nmt_level # "detail" => log' = log /\ c.pc \notin {"order", "log"}
    BY <1>5, <1>6
  <2>3. _nmt_level = "unknown" => c.pc = "done" /\ c.F \in odd' /\ c.addr \in early'
    BY <1>1, <1>4, <1>6
  <2> QED BY <1>3, <1>12, <2>1, <2>2, <2>3, UntracedKept
<1>20. ASSUME NEW after
       PROVE  /\ a \in Present(after, live', call') <=> a \in live' \/ c.pc \in after
              /\ a \in Present(after, live, call) <=> a \in live \/ (call[t].addr = a /\ Seen(after, call[t]))
  <2>1. /\ a \in Present(after, live', call') <=> a \in live' \/ (c.addr = a /\ Seen(after, c))
        /\ a \in Present(after, live, call) <=> a \in live \/ (call[t].addr = a /\ Seen(after, call[t]))
    <3>1. HeapTypes /\ Moves(t, a, c)
      BY <1>3, <1>12
    <3>2. a \in Present(after, live', call') <=> a \in live' \/ (c.addr = a /\ Seen(after, c))
      BY ONLY <3>1, MovesPresent
    <3>3. a \in Present(after, live, call) <=> a \in live \/ (call[t].addr = a /\ Seen(after, call[t]))
      BY ONLY <3>1, MovesPresent
    <3> QED BY <3>2, <3>3
  <2>2. Seen(after, c) <=> c.pc \in after
    BY <1>4 DEF Seen
  <2> QED BY <1>4, <2>1, <2>2
<1>16. /\ a \in Present(AfterLog, live', call') <=> c.pc \in AfterLog
       /\ a \notin Present(AfterLog, live, call)
  BY <1>7, <1>20
<1>17. Recorded'
  <2>1. _nmt_level = "detail" => a \notin Present(AfterLog, live', call')
    BY <1>6, <1>16 DEF AfterLog
  <2>2. _nmt_level = "unknown" => NoneOf(log, a) /\ a \in early'
    BY <1>1, <1>3 DEF Untraced, NoneOf
  <2> QED BY <1>3, <1>12, <1>16, <2>1, <2>2, RecordedKept
<1>18. Tallied'
  <2>1. ASSUME _nmt_level \in {"unknown", "summary", "detail"}, NEW G \in MEMFLAG \ odd',
               NEW after, after \in {AfterCount, AfterBytes}
        PROVE  Keeps(t, a, c, G, after)
    <3>1. a \notin Present(after, live, call)
      BY <1>7, <1>20
    <3>2. a \in Present(after, live', call') <=> c.pc \in after
      BY <1>7, <1>20
    <3>3. c.pc \in after => G # F
      BY <1>5, <1>6, <2>1 DEF AfterCount, AfterBytes
    <3> QED BY <1>8, <3>1, <3>2, <3>3 DEF Keeps
  <2> QED BY <1>3, <1>12, <2>1, TalliedKept
<1>19. HistoryAlternates'
  BY <1>1, <1>3, HistoryKept
<1> QED BY <1>13, <1>14, <1>15, <1>17, <1>18, <1>19 DEF HeapInv

(* One more record at the end of the log.                                  *)
LEMMA LogAppended ==
    ASSUME NEW h \in Seq(Records), NEW r \in Records, NEW g, g = Append(h, r)
    PROVE  /\ g \in Seq(Records)
           /\ LastIs(g, r.addr, r.type)
           /\ \A b : b # r.addr => /\ NoneOf(h, b) => NoneOf(g, b)
                                   /\ \A type : LastIs(h, b, type) => LastIs(g, b, type)
<1>1. /\ g \in Seq(Records) /\ Len(g) = Len(h) + 1 /\ Len(h) \in Nat
      /\ g[Len(h) + 1] = r /\ \A j \in 1..Len(h) : g[j] = h[j]
  BY AppendProperties
<1>2. LastIs(g, r.addr, r.type)
  BY <1>1 DEF LastIs
<1>3. ASSUME NEW b, b # r.addr, NoneOf(h, b) PROVE NoneOf(g, b)
  BY <1>1, <1>3 DEF NoneOf
<1>4. ASSUME NEW b, b # r.addr, NEW type, LastIs(h, b, type) PROVE LastIs(g, b, type)
  <2>1. PICK j \in 1..Len(h) : /\ h[j].addr = b /\ h[j].type = type
                               /\ \A k \in (j + 1)..Len(h) : h[k].addr # b
    BY <1>4 DEF LastIs
  <2>2. j \in 1..Len(g) /\ g[j].addr = b /\ g[j].type = type
    BY <1>1, <2>1
  <2>3. ASSUME NEW k \in (j + 1)..Len(g) PROVE g[k].addr # b
    <3>1. k = Len(h) + 1 \/ k \in (j + 1)..Len(h)
      BY <1>1
    <3> QED BY <1>1, <1>4, <2>1, <3>1
  <2> QED BY <2>2, <2>3 DEF LastIs
<1> QED BY <1>1, <1>2, <1>3, <1>4

LEMMA HistoryAppended ==
    ASSUME HistoryAlternates, log \in Seq(Records), NEW r \in Records, log' = Append(log, r),
           UNCHANGED early,
           \/ r.addr = null
           \/ r.type = "alloc" /\ (LastIs(log, r.addr, "free") \/ NoneOf(log, r.addr))
           \/ r.type = "free" /\ (LastIs(log, r.addr, "alloc") \/ (NoneOf(log, r.addr) /\ r.addr \in early))
    PROVE  HistoryAlternates'
<1>0. PICK n : n = Len(log) + 1
  OBVIOUS
<1>1. /\ log' \in Seq(Records) /\ Len(log') = n /\ Len(log) \in Nat /\ n = Len(log) + 1
      /\ log'[n] = r /\ \A j \in 1..Len(log) : log'[j] = log[j]
  BY <1>0, AppendProperties
<1>2. DOMAIN log = 1..Len(log) /\ DOMAIN log' = 1..n
  BY <1>1
<1>3. ASSUME NEW i \in DOMAIN log PROVE Heap!First(i)' <=> Heap!First(i)
  <2>1. i \in 1..Len(log) /\ \A k \in 1..(i - 1) : k \in 1..Len(log)
    BY <1>1, <1>2
  <2> QED BY <1>1, <2>1 DEF Heap!First
<1>4. ASSUME NEW i \in DOMAIN log, NEW j \in DOMAIN log'
      PROVE  Heap!Consecutive(j, i)' <=> j \in DOMAIN log /\ Heap!Consecutive(j, i)
  <2>1. i \in 1..Len(log) /\ j \in Nat /\ (j < i => j \in DOMAIN log)
    BY <1>1, <1>2
  <2>2. \A k \in (j + 1)..(i - 1) : k \in 1..Len(log)
    BY <1>1, <1>2
  <2> QED BY <1>1, <1>2, <2>1, <2>2 DEF Heap!Consecutive
<1>5. ASSUME NEW i \in DOMAIN log, log'[i].addr # null
      PROVE  /\ Heap!First(i)' /\ log'[i].addr \notin early' => log'[i].type = "alloc"
             /\ \A j \in DOMAIN log' : Heap!Consecutive(j, i)' => log'[j].type # log'[i].type
  <2>1. /\ Heap!First(i) /\ log[i].addr \notin early => log[i].type = "alloc"
        /\ \A j \in DOMAIN log : Heap!Consecutive(j, i) => log[j].type # log[i].type
    BY <1>1, <1>2, <1>5 DEF HistoryAlternates, Heap!HistoryAlternates
  <2> QED BY <1>1, <1>2, <1>3, <1>4, <2>1
<1>6. NoneOf(log, r.addr) \/ ~Heap!First(n)'
  <2> SUFFICES ASSUME Heap!First(n)' PROVE NoneOf(log, r.addr)
    OBVIOUS
  <2>1. \A k \in 1..(n - 1) : log'[k].addr # log'[n].addr
    BY DEF Heap!First
  <2> QED BY <1>1, <2>1 DEF NoneOf
<1>7. ASSUME NEW j \in DOMAIN log', Heap!Consecutive(j, n)', NEW type, LastIs(log, r.addr, type)
      PROVE  log'[j].type = type
  <2>1. PICK i \in 1..Len(log) : /\ log[i].addr = r.addr /\ log[i].type = type
                                 /\ \A k \in (i + 1)..Len(log) : log[k].addr # r.addr
    BY <1>7 DEF LastIs
  <2>2. /\ j < n /\ log'[j].addr = r.addr
        /\ \A k \in (j + 1)..(n - 1) : log'[k].addr # r.addr
    BY <1>1, <1>7 DEF Heap!Consecutive
  <2>3. j \in 1..Len(log) /\ log[j].addr = r.addr /\ log'[j] = log[j]
    BY <1>1, <1>2, <2>2
  <2>4. ~(i < j)
    BY <1>1, <2>1, <2>3
  <2>5. ~(j < i)
    BY <1>1, <2>1, <2>2
  <2>6. i = j
    BY <2>3, <2>4, <2>5
  <2> QED BY <2>1, <2>3, <2>6
<1>8. ASSUME NEW j \in DOMAIN log', Heap!Consecutive(j, n)' PROVE ~NoneOf(log, r.addr)
  <2>1. j < n /\ log'[j].addr = r.addr
    BY <1>1, <1>8 DEF Heap!Consecutive
  <2>2. j \in 1..Len(log) /\ log[j].addr = r.addr
    BY <1>1, <1>2, <2>1
  <2> QED BY <2>2 DEF NoneOf
<1>9. ASSUME log'[n].addr # null
      PROVE  /\ Heap!First(n)' /\ log'[n].addr \notin early' => log'[n].type = "alloc"
             /\ \A j \in DOMAIN log' : Heap!Consecutive(j, n)' => log'[j].type # log'[n].type
  <2>1. ASSUME Heap!First(n)', log'[n].addr \notin early' PROVE log'[n].type = "alloc"
    <3>1. NoneOf(log, r.addr) /\ r.addr \notin early /\ r.addr # null
      BY <1>1, <1>6, <1>9, <2>1
    <3>2. ~LastIs(log, r.addr, "alloc")
      BY <3>1 DEF NoneOf, LastIs
    <3> QED BY <1>1, <3>1, <3>2
  <2>2. ASSUME NEW j \in DOMAIN log', Heap!Consecutive(j, n)' PROVE log'[j].type # log'[n].type
    <3>1. ~NoneOf(log, r.addr)
      BY <1>8, <2>2
    <3>2. \A type : LastIs(log, r.addr, type) => log'[j].type = type
      BY <1>7, <2>2
    <3>3. r.addr # null
      BY <1>1, <1>9
    <3> QED BY <1>1, <3>1, <3>2, <3>3
  <2> QED BY <2>1, <2>2
<1>10. \A i \in DOMAIN log' : i = n \/ i \in DOMAIN log
  BY <1>1, <1>2
<1> QED BY <1>5, <1>9, <1>10 DEF HistoryAlternates, Heap!HistoryAlternates

(* A step of a call that releases null: the blocks are not touched, and its*)
(* record is of no address.                                                *)
NullMoves(t, c) ==
    /\ call' = [call EXCEPT ![t] = c] /\ c \in Calls
    /\ call[t].addr = null /\ (Resting(c) \/ Nulling(c, odd'))
    /\ odd \subseteq odd' /\ _next_order_id' \in Nat
    /\ UNCHANGED <<block, live, early, _nmt_level>>
    /\ _native_alloc' \in [MEMFLAG -> Int] /\ _native_count' \in [MEMFLAG -> Int]
    /\ \A F \in MEMFLAG \ odd' : _native_alloc'[F] = _native_alloc[F] /\ _native_count'[F] = _native_count[F]
    /\ _nmt_level # "detail" => c.pc \notin {"order", "log"}
    /\ _nmt_level = "unknown" =>
          UNCHANGED <<_native_alloc, _native_count>> /\ (c.pc # "idle" => c.pc = "done")

LEMMA HeapNulled ==
    ASSUME HeapInv, NEW t \in Threads, NEW c, NullMoves(t, c),
           \/ log' = log
           \/ _nmt_level = "detail" /\ \E r \in Records : r.addr = null /\ log' = Append(log, r)
    PROVE  HeapInv'
<1>1. HeapTypes /\ Owners /\ Untraced /\ Recorded /\ Tallied /\ HistoryAlternates
  BY DEF HeapInv
<1>2. /\ call' = [call EXCEPT ![t] = c] /\ call \in [Threads -> Calls] /\ c \in Calls
      /\ call[t].addr = null /\ c.addr = null /\ null \notin Addresses
      /\ odd \subseteq odd' /\ UNCHANGED <<block, live, early, _nmt_level>>
  BY <1>1, HeapAssumption DEF NullMoves, HeapTypes, Resting, Nulling
<1>3. call' \in [Threads -> Calls] /\ call'[t] = c /\ \A u \in Threads \ {t} : call'[u] = call[u]
  BY <1>2
<1>4. ASSUME NEW after PROVE Present(after, live', call') = Present(after, live, call)
  <2>1. \A u \in Threads : call'[u].addr \in Addresses \/ call[u].addr \in Addresses => call'[u] = call[u]
    BY <1>2, <1>3
  <2> QED BY <1>2, <2>1 DEF Present
<1>5. /\ log' \in Seq(Records)
      /\ \A b \in Addresses : /\ NoneOf(log, b) => NoneOf(log', b)
                              /\ \A type : LastIs(log, b, type) => LastIs(log', b, type)
  <2>1. CASE log' = log
    BY <1>1, <2>1 DEF HeapTypes
  <2>2. ASSUME NEW r \in Records, r.addr = null, log' = Append(log, r)
        PROVE  /\ log' \in Seq(Records)
               /\ \A b \in Addresses : /\ NoneOf(log, b) => NoneOf(log', b)
                                       /\ \A type : LastIs(log, b, type) => LastIs(log', b, type)
    <3> DEFINE h == log
               g == log'
    <3>1. h \in Seq(Records) /\ g = Append(h, r)
      BY <1>1, <2>2 DEF HeapTypes
    <3> HIDE DEF h, g
    <3>2. /\ g \in Seq(Records)
          /\ \A b : b # r.addr => /\ NoneOf(h, b) => NoneOf(g, b)
                                  /\ \A type : LastIs(h, b, type) => LastIs(g, b, type)
      BY ONLY <3>1, <2>2, LogAppended
    <3> QED BY <1>2, <2>2, <3>2 DEF h, g
  <2> QED BY <2>1, <2>2
<1>6. HeapTypes'
  BY <1>1, <1>2, <1>3, <1>5 DEF HeapTypes, NullMoves
<1>7. Owners'
  <2>1. ASSUME NEW u \in Threads
        PROVE  Resting(call'[u]) \/ Working(call'[u], block', live', odd') \/ Nulling(call'[u], odd')
    <3>1. CASE u = t
      BY <1>3, <3>1 DEF NullMoves
    <3>2. CASE u # t
      <4>1. Resting(call[u]) \/ Working(call[u], block, live, odd) \/ Nulling(call[u], odd)
        BY <1>1 DEF Owners
      <4> QED BY <1>2, <1>3, <3>2, <4>1 DEF Working, Nulling
    <3> QED BY <3>1, <3>2
  <2>2. \A u, v \in Threads : call'[u].addr = call'[v].addr => call'[u].addr = null \/ u = v
    BY <1>1, <1>2, <1>3 DEF Owners
  <2>3. \A a \in live' : block'[a].F # null /\ block'[a].usable > 0
    BY <1>1, <1>2 DEF Owners
  <2> QED BY <2>1, <2>2, <2>3 DEF Owners
<1>8. Untraced'
  <2>1. _nmt_level' # "detail" => log' = <<>> /\ \A u \in Threads : call'[u].pc \notin {"order", "log"}
    BY <1>1, <1>2, <1>3 DEF Untraced, NullMoves
  <2>2. ASSUME _nmt_level = "unknown"
        PROVE  /\ UNCHANGED <<_native_alloc, _native_count>>
               /\ \A u \in Threads : call'[u].pc # "idle" => call'[u].pc = "done" /\ call'[u].F \in odd'
               /\ \A u \in Threads : call'[u].addr \in early' \cup {null}
    <3>1. c.pc # "idle" => c.pc = "done" /\ c.F \in odd'
      BY <2>2 DEF NullMoves, Resting, Nulling
    <3> QED BY <1>1, <1>2, <1>3, <2>2, <3>1 DEF Untraced, NullMoves
  <2> QED BY <1>1, <1>2, <2>1, <2>2 DEF Untraced
<1>9. Recorded'
  BY <1>1, <1>2, <1>4, <1>5 DEF Recorded
<1>10. Tallied'
  <2> SUFFICES ASSUME _nmt_level' \in {"unknown", "summary", "detail"}, NEW F \in MEMFLAG \ odd'
               PROVE  TalliedFor(F)'
    BY DEF Tallied
  <2>1. TalliedFor(F) /\ _native_alloc'[F] = _native_alloc[F] /\ _native_count'[F] = _native_count[F]
    BY <1>1, <1>2 DEF Tallied, NullMoves
  <2>2. block' = block
    BY <1>2
  <2> QED BY <1>4, <2>1, <2>2 DEF TalliedFor
<1>11. HistoryAlternates'
  <2>1. CASE log' = log
    BY <1>1, <1>2, <2>1, HistoryKept
  <2>2. ASSUME NEW r \in Records, r.addr = null, log' = Append(log, r)
        PROVE  HistoryAlternates'
    <3>1. log \in Seq(Records) /\ early' = early
      BY <1>1, <1>2 DEF HeapTypes
    <3> QED BY ONLY <1>1, <2>2, <3>1, HistoryAppended
  <2> QED BY <2>1, <2>2
<1> QED BY <1>6, <1>7, <1>8, <1>9, <1>10, <1>11 DEF HeapInv

(* A call with a block goes to another place.                              *)
Goes(t, pc, order) ==
    /\ call[t].pc # "idle" /\ call[t].addr # null
    /\ pc \in Places \ {"idle"} /\ order \in Nat
    /\ call' = [call EXCEPT ![t] = [call[t] EXCEPT !.pc = pc, !.order = order]]
    /\ UNCHANGED <<block, live, early, odd, _nmt_level>>
Onward(t, a, c, pc) ==
    /\ a \in Addresses /\ a = call[t].addr /\ a \notin live
    /\ c.pc = pc /\ c.type = call[t].type /\ c.type \in {"alloc", "free"}
    /\ c.F = call[t].F /\ c.F = block[a].F /\ c.F \in MEMFLAG /\ c.bytes = call[t].bytes
    /\ c.F \notin odd => call[t].bytes = block[a].usable
    /\ Moves(t, a, c)

LEMMA CallGoes ==
    ASSUME HeapTypes, Owners, NEW t \in Threads, NEW pc, NEW order, Goes(t, pc, order)
    PROVE  \E a, c : Onward(t, a, c, pc)
<1> DEFINE a == call[t].addr
           c == [call[t] EXCEPT !.pc = pc, !.order = order]
<1>1. /\ Working(call[t], block, live, odd) /\ call[t] \in Calls /\ null \notin Addresses
      /\ call[t].pc # "idle" /\ pc \in Places \ {"idle"} /\ order \in Nat
      /\ call' = [call EXCEPT ![t] = c] /\ UNCHANGED <<block, live, early, odd>>
  BY HeapAssumption DEF Owners, Goes, Resting, Nulling, HeapTypes
<1>2. /\ c \in Calls /\ c.pc = pc /\ c.type = call[t].type /\ c.F = call[t].F /\ c.addr = a
      /\ c.bytes = call[t].bytes
  BY <1>1 DEF Calls
<1>3. /\ a \in Addresses /\ a \notin live /\ call[t].type \in {"alloc", "free"}
      /\ call[t].F = block[a].F /\ call[t].F \in MEMFLAG
      /\ call[t].F \notin odd => call[t].bytes = block[a].usable
      /\ block[a].usable > 0
  BY <1>1 DEF Working, Calls
<1>4. \A u \in Threads \ {t} : call[u].addr # a
  BY <1>1, <1>3 DEF Owners
<1> HIDE DEF c
<1>5. Working(c, block', live', odd')
  BY <1>1, <1>2, <1>3 DEF Working
<1>6. Moves(t, a, c)
  BY <1>1, <1>2, <1>3, <1>4, <1>5 DEF Moves, HeapTypes, Owners
<1> HIDE DEF a
<1>7. Onward(t, a, c, pc)
  BY <1>2, <1>3, <1>6 DEF Onward, a
<1> QED BY <1>7

LEMMA GoesPresent ==
    ASSUME HeapTypes, NEW t \in Threads, NEW a, NEW c, NEW pc, Onward(t, a, c, pc), NEW after,
           UNCHANGED live
    PROVE  /\ a \in Present(after, live', call') <=> Seen(after, c)
           /\ a \in Present(after, live, call) <=> Seen(after, call[t])
<1>1. HeapTypes /\ Moves(t, a, c) /\ a \in Addresses /\ t \in Threads
  BY DEF Onward
<1>2. a \in Present(after, live', call') <=> a \in live' \/ (c.addr = a /\ Seen(after, c))
  BY ONLY <1>1, MovesPresent
<1>3. a \in Present(after, live, call) <=> a \in live \/ (call[t].addr = a /\ Seen(after, call[t]))
  BY ONLY <1>1, MovesPresent
<1>4. a \notin live /\ live' = live /\ call[t].addr = a
  BY DEF Onward
<1>5. c.addr = a \/ ~Seen(after, c)
  BY <1>1, HeapAssumption DEF Moves, Onward, Resting, Working
<1> QED BY <1>2, <1>3, <1>4, <1>5

(* A step that neither the log nor the counters take for one.              *)
LEMMA HeapUnnoticed ==
    ASSUME HeapInv, NEW t \in Threads, NEW a, NEW c, NEW pc, Onward(t, a, c, pc), HeapTypes',
           UNCHANGED <<block, live, early, odd, _nmt_level, _native_alloc, _native_count, log>>,
           _nmt_level = "detail", pc \in {"order", "log"}, call[t].pc \in {"order", "log"}
    PROVE  HeapInv'
<1>1. HeapTypes /\ Owners /\ Untraced /\ Recorded /\ Tallied /\ HistoryAlternates
  BY DEF HeapInv
<1>2. Moves(t, a, c) /\ a \in Addresses /\ c.pc = pc /\ c.type = call[t].type
  BY DEF Onward
<1>3. ASSUME NEW after, after \in {AfterLog, AfterCount, AfterBytes}
      PROVE  a \in Present(after, live', call') <=> a \in Present(after, live, call)
  <2>1. Seen(after, c) <=> Seen(after, call[t])
    BY <1>2, <1>3 DEF Seen, AfterLog, AfterBytes, AfterCount
  <2> QED BY <1>1, <2>1, GoesPresent
<1>4. Owners'
  BY <1>1, <1>2, MovesOwners
<1>5. Untraced'
  BY <1>1, <1>2, UntracedKept
<1>6. Recorded'
  BY <1>1, <1>2, <1>3, RecordedKept
<1>7. Tallied'
  <2>1. ASSUME NEW F \in MEMFLAG \ odd', NEW after, after \in {AfterCount, AfterBytes}
        PROVE  Keeps(t, a, c, F, after)
    BY <1>3, <2>1 DEF Keeps
  <2> QED BY <1>1, <1>2, <2>1, TalliedKept
<1>8. HistoryAlternates'
  BY <1>1, HistoryKept
<1> QED BY <1>4, <1>5, <1>6, <1>7, <1>8 DEF HeapInv

(* The steps of a call that releases null, with what they have in common.  *)
LEMMA HeapNullStep ==
    ASSUME HeapInv, NEW t \in Threads, call[t].pc # "idle", call[t].addr = null, NEW pc \in Places, pc # "idle",
           NEW order \in Nat, NEW c, c = [call[t] EXCEPT !.pc = pc, !.order = order],
           call' = [call EXCEPT ![t] = c], UNCHANGED <<block, live, early, odd, _nmt_level>>,
           _next_order_id' \in Nat,
           _native_alloc' \in [MEMFLAG -> Int], _native_count' \in [MEMFLAG -> Int],
           \A F \in MEMFLAG : F # call[t].F =>
              _native_alloc'[F] = _native_alloc[F] /\ _native_count'[F] = _native_count[F],
           _nmt_level # "detail" => pc \notin {"order", "log"},
           _nmt_level # "unknown"
    PROVE  NullMoves(t, c)
<1>1. call[t] \in Calls /\ Nulling(call[t], odd)
  BY HeapAssumption DEF HeapInv, HeapTypes, Owners, Resting, Working
<1>2. /\ c \in Calls /\ c.pc = pc /\ c.type = call[t].type /\ c.addr = null /\ c.F = call[t].F
  BY <1>1 DEF Calls
<1>3. Nulling(c, odd') /\ call[t].F \in odd'
  BY <1>1, <1>2 DEF Nulling
<1> HIDE DEF Places
<1> QED BY <1>2, <1>3 DEF NullMoves

LEMMA HeapDetailOrder ==
    ASSUME HeapInv, NEW t \in Threads, Heap!DetailOrder(t), call[t].addr # null
    PROVE  HeapInv'
<1>1. HeapTypes /\ Owners /\ Untraced
  BY DEF HeapInv
<1>2. /\ call[t].pc = "order" /\ _next_order_id' = (_next_order_id + 1) % OrderIds
      /\ call' = [call EXCEPT ![t].pc = "log", ![t].order = _next_order_id]
      /\ UNCHANGED <<block, live, early, odd, _nmt_level, _native_alloc, _native_count, log>>
  BY DEF Heap!DetailOrder
<1>3. call \in [Threads -> Calls] /\ _next_order_id \in Nat
  BY <1>1 DEF HeapTypes
<1>4. call' = [call EXCEPT ![t] = [call[t] EXCEPT !.pc = "log", !.order = _next_order_id]]
  BY <1>2, <1>3
<1>5. Goes(t, "log", _next_order_id)
  BY <1>2, <1>3, <1>4 DEF Goes, Places
<1>6. PICK a, c : Onward(t, a, c, "log")
  BY <1>1, <1>5, CallGoes
<1>7. _next_order_id' \in Nat
  BY <1>2, <1>3, HeapAssumption
<1>8. HeapTypes'
  <2>1. call' \in [Threads -> Calls]
    BY <1>1, <1>6, MovesOwners DEF Onward
  <2> QED BY <1>1, <1>2, <1>7, <2>1 DEF HeapTypes
<1>9. _nmt_level = "detail"
  BY <1>1, <1>2 DEF Untraced
<1> QED BY <1>2, <1>6, <1>8, <1>9, HeapUnnoticed

(* free hands an owner's block to a call.                                  *)
LEMMA HeapFreed ==
    ASSUME HeapInv, NEW t \in Threads, NEW a, NEW F \in MEMFLAG, Heap!Free(t, a, F)
    PROVE  HeapInv'
<1> DEFINE c == Heap!FreeCall(a, F, block[a].usable)
<1>1. /\ call[t].pc = "idle" /\ a \in live /\ live' = live \ {a} /\ call' = [call EXCEPT ![t] = c]
      /\ block' = [block EXCEPT ![a].F = F] /\ odd' = odd \cup Heap!WrongTag(a, F)
      /\ UNCHANGED <<_nmt_level, _native_alloc, _native_count, _next_order_id, log, early>>
  BY DEF Heap!Free
<1>2. HeapTypes /\ Owners /\ Untraced /\ Recorded /\ Tallied /\ HistoryAlternates
  BY DEF HeapInv
<1>3. _nmt_level \in {"off", "summary", "detail", "unknown"} /\ null \notin Addresses
  BY <1>2, HeapAssumption DEF HeapTypes
<1>4. /\ c.pc = Heap!RecordStart /\ c.type = "free" /\ c.F = F /\ c.addr = a
      /\ c.bytes = block[a].usable /\ c.order = 0
  BY DEF Heap!FreeCall
<1>5. /\ _nmt_level = "detail" => c.pc = "order"
      /\ _nmt_level = "summary" => c.pc = "bytes"
      /\ _nmt_level \in {"unknown", "off"} => c.pc = "done"
  BY <1>3, <1>4 DEF Heap!RecordStart
<1>6. a \in Addresses /\ block[a] \in [usable : Nat, F : MEMFLAG \cup {null}]
      /\ block[a].F # null /\ block[a].usable > 0 /\ F # null
  BY <1>1, <1>2, HeapAssumption DEF HeapTypes, Memories, Owners
<1>20. /\ block' \in Memories /\ block'[a].F = F /\ block'[a].usable = block[a].usable
       /\ \A b \in Addresses \ {a} : block'[b] = block[b]
  BY <1>1, <1>2, <1>6 DEF HeapTypes, Memories
<1>21. odd \subseteq odd' /\ (F = block[a].F \/ {F, block[a].F} \subseteq odd')
  BY <1>1 DEF Heap!WrongTag
<1>7. c \in Calls
  <2>1. c.pc \in Places
    BY <1>3, <1>5 DEF Places
  <2> QED BY <1>6, <2>1 DEF Calls, Heap!FreeCall
<1>8. call[t].addr = null
  BY <1>1, <1>2 DEF Owners, Resting, Working, Nulling
<1> HIDE DEF c
<1>9. \A u \in Threads : call[u].addr # a
  BY <1>1, <1>2, <1>3, <1>6 DEF Owners, Resting, Working, Nulling
<1>10. Working(c, block', live', odd')
  BY <1>1, <1>3, <1>4, <1>5, <1>6, <1>20 DEF Working
<1>11. Moves(t, a, c)
  BY <1>1, <1>2, <1>4, <1>6, <1>7, <1>8, <1>9, <1>10, <1>20, <1>21 DEF Moves, HeapTypes
<1>12. Owners' /\ call' \in [Threads -> Calls]
  BY <1>2, <1>6, <1>11, MovesOwners
<1>13. HeapTypes'
  BY <1>1, <1>2, <1>12, <1>20 DEF HeapTypes
<1>14. _nmt_level = "unknown" => c.F \in odd' /\ a \in early'
  BY <1>1, <1>2, <1>4, <1>21 DEF Untraced
<1>15. Untraced'
  BY <1>1, <1>2, <1>3, <1>4, <1>5, <1>6, <1>11, <1>14, UntracedKept
<1>16. ASSUME NEW after
       PROVE  a \in Present(after, live, call) /\ (a \in Present(after, live', call') <=> c.pc \notin after)
  <2>1. HeapTypes /\ Moves(t, a, c) /\ a \in Addresses /\ t \in Threads
    BY <1>2, <1>6, <1>11
  <2>2. a \in Present(after, live', call') <=> a \in live' \/ (c.addr = a /\ Seen(after, c))
    BY ONLY <2>1, MovesPresent
  <2>3. a \in Present(after, live, call) <=> a \in live \/ (call[t].addr = a /\ Seen(after, call[t]))
    BY ONLY <2>1, MovesPresent
  <2>4. Seen(after, c) <=> c.pc \notin after
    BY <1>4 DEF Seen
  <2> QED BY <1>1, <1>4, <2>2, <2>3, <2>4
<1>17. Recorded'
  <2>1. _nmt_level = "detail" => a \in Present(AfterLog, live', call')
    BY <1>5, <1>16 DEF AfterLog
  <2>2. _nmt_level = "unknown" => NoneOf(log, a) /\ a \in early'
    BY <1>2, <1>14 DEF Untraced, NoneOf
  <2> QED BY <1>1, <1>2, <1>6, <1>11, <1>16, <2>1, <2>2, RecordedKept
<1>18. Tallied'
  <2>1. ASSUME _nmt_level \in {"unknown", "summary", "detail"}, NEW G \in MEMFLAG \ odd',
               NEW after, after \in {AfterCount, AfterBytes}
        PROVE  Keeps(t, a, c, G, after)
    <3>1. a \in Present(after, live, call) /\ (a \in Present(after, live', call') <=> c.pc \notin after)
      BY <1>16
    <3>2. c.pc \in after => F # G
      BY <1>3, <1>4, <1>5, <1>14, <2>1 DEF AfterCount, AfterBytes
    <3>3. block[a].F = G <=> F = G
      BY <1>21, <2>1
    <3> QED BY <1>20, <3>1, <3>2, <3>3 DEF Keeps
  <2> QED BY <1>1, <1>2, <1>6, <1>11, <2>1, TalliedKept
<1>19. HistoryAlternates'
  BY <1>1, <1>2, HistoryKept
<1> QED BY <1>12, <1>13, <1>15, <1>17, <1>18, <1>19 DEF HeapInv

LEMMA HeapDetailWrite ==
    ASSUME HeapInv, NEW t \in Threads, Heap!DetailWrite(t), call[t].addr # null
    PROVE  HeapInv'
<1> DEFINE r == [type |-> call[t].type, addr |-> call[t].addr, bytes |-> call[t].bytes,
                 order |-> call[t].order]
<1>1. HeapTypes /\ Owners /\ Untraced /\ Recorded /\ Tallied /\ HistoryAlternates
  BY DEF HeapInv
<1>2. /\ call[t].pc = "log" /\ log' = Append(log, r)
      /\ call' = [call EXCEPT ![t].pc = "bytes"]
      /\ UNCHANGED <<block, live, early, odd, _nmt_level, _native_alloc, _native_count, _next_order_id>>
  BY DEF Heap!DetailWrite, Heap!AfterDetail
<1>3. call \in [Threads -> Calls] /\ call[t] \in Calls /\ log \in Seq(Records)
  BY <1>1 DEF HeapTypes
<1>4. call' = [call EXCEPT ![t] = [call[t] EXCEPT !.pc = "bytes", !.order = call[t].order]]
  BY <1>2, <1>3 DEF Calls
<1>5. Goes(t, "bytes", call[t].order)
  BY <1>2, <1>3, <1>4 DEF Goes, Places, Calls
<1>6. PICK a, c : Onward(t, a, c, "bytes")
  BY <1>1, <1>5, CallGoes
<1>7. /\ Moves(t, a, c) /\ a \in Addresses /\ a = call[t].addr
      /\ c.pc = "bytes" /\ c.type = call[t].type /\ c.type \in {"alloc", "free"}
  BY <1>6 DEF Onward
<1>8. r \in Records /\ r.addr = a /\ r.type = call[t].type
  BY <1>3, <1>7 DEF Records, Calls
<1> HIDE DEF r
<1>9. _nmt_level = "detail"
  BY <1>1, <1>2 DEF Untraced
<1>10. Owners' /\ call' \in [Threads -> Calls]
  BY <1>1, <1>7, MovesOwners
<1>11. /\ log' \in Seq(Records) /\ LastIs(log', a, call[t].type)
       /\ \A b : b # a => /\ NoneOf(log, b) => NoneOf(log', b)
                          /\ \A type : LastIs(log, b, type) => LastIs(log', b, type)
  <2> DEFINE g == log'
  <2>1. g = Append(log, r)
    BY <1>2
  <2> HIDE DEF g
  <2>2. /\ g \in Seq(Records) /\ LastIs(g, r.addr, r.type)
        /\ \A b : b # r.addr => /\ NoneOf(log, b) => NoneOf(g, b)
                                /\ \A type : LastIs(log, b, type) => LastIs(g, b, type)
    BY <1>3, <1>8, <2>1, LogAppended
  <2> QED BY <1>8, <2>2 DEF g
<1>12. HeapTypes'
  BY <1>1, <1>2, <1>10, <1>11 DEF HeapTypes
<1>13. Untraced'
  BY <1>1, <1>2, <1>7, <1>9, UntracedKept
<1>14. /\ a \in Present(AfterLog, live', call') <=> call[t].type = "alloc"
       /\ a \in Present(AfterLog, live, call) <=> call[t].type = "free"
  <2>1. /\ a \in Present(AfterLog, live', call') <=> Seen(AfterLog, c)
        /\ a \in Present(AfterLog, live, call) <=> Seen(AfterLog, call[t])
    BY <1>1, <1>2, <1>6, GoesPresent
  <2>2. (Seen(AfterLog, c) <=> call[t].type = "alloc") /\ (Seen(AfterLog, call[t]) <=> call[t].type = "free")
    BY <1>2, <1>7 DEF Seen, AfterLog
  <2> QED BY <2>1, <2>2
<1>15. IF call[t].type = "free" THEN LastIs(log, a, "alloc") \/ (NoneOf(log, a) /\ a \in early)
       ELSE LastIs(log, a, "free") \/ NoneOf(log, a)
  BY <1>1, <1>7, <1>9, <1>14 DEF Recorded
<1>16. Recorded'
  <2> SUFFICES ASSUME NEW b \in Addresses
               PROVE  IF b \in Present(AfterLog, live', call')
                      THEN LastIs(log', b, "alloc") \/ (NoneOf(log', b) /\ b \in early')
                      ELSE LastIs(log', b, "free") \/ NoneOf(log', b)
    BY DEF Recorded
  <2>1. CASE b = a
    BY <1>7, <1>11, <1>14, <2>1
  <2>2. CASE b # a
    <3>1. b \in Present(AfterLog, live', call') <=> b \in Present(AfterLog, live, call)
      BY <1>1, <1>7, <2>2, MovesPresent
    <3>2. IF b \in Present(AfterLog, live, call)
          THEN LastIs(log, b, "alloc") \/ (NoneOf(log, b) /\ b \in early)
          ELSE LastIs(log, b, "free") \/ NoneOf(log, b)
      BY <1>1, <1>9 DEF Recorded
    <3> QED BY <1>2, <1>11, <2>2, <3>1, <3>2
  <2> QED BY <2>1, <2>2
<1>17. Tallied'
  <2>1. ASSUME NEW F \in MEMFLAG \ odd', NEW after, after \in {AfterCount, AfterBytes}
        PROVE  Keeps(t, a, c, F, after)
    <3>1. /\ a \in Present(after, live', call') <=> Seen(after, c)
          /\ a \in Present(after, live, call) <=> Seen(after, call[t])
      BY <1>1, <1>2, <1>6, GoesPresent
    <3>2. Seen(after, c) <=> Seen(after, call[t])
      BY <1>2, <1>7, <2>1 DEF Seen, AfterCount, AfterBytes
    <3> QED BY <1>2, <3>1, <3>2 DEF Keeps
  <2> QED BY <1>1, <1>2, <1>7, <2>1, TalliedKept
<1>18. HistoryAlternates'
  BY <1>1, <1>2, <1>3, <1>7, <1>8, <1>15, HistoryAppended
<1> QED BY <1>10, <1>12, <1>13, <1>16, <1>17, <1>18 DEF HeapInv

(* The block at a comes to, or leaves, the blocks with its tag.            *)
LEMMA TagMoved ==
    ASSUME HeapTypes, NEW t \in Threads, NEW a \in Addresses, NEW c, Moves(t, a, c), block' = block,
           NEW after, NEW A, A = Tagged(block[a].F, block, Present(after, live, call)),
           NEW B, B = Tagged(block[a].F, block, Present(after, live', call'))
    PROVE  /\ a \notin Present(after, live, call) /\ a \in Present(after, live', call') =>
                /\ Cardinality(B) = Cardinality(A) + 1
                /\ Heap!Bytes(block, B) = Heap!Bytes(block, A) + block[a].usable
           /\ a \in Present(after, live, call) /\ a \notin Present(after, live', call') =>
                /\ Cardinality(B) = Cardinality(A) - 1
                /\ Heap!Bytes(block, B) = Heap!Bytes(block, A) - block[a].usable
<1> DEFINE P == Present(after, live, call)
           Q == Present(after, live', call')
<1>1. P \subseteq Addresses /\ Q \subseteq Addresses
  BY DEF Present
<1>2. \A b \in Addresses \ {a} : b \in Q <=> b \in P
  BY MovesPresent
<1>3. A \in SUBSET Addresses /\ B \in SUBSET Addresses
  BY <1>1 DEF Tagged
<1>4. /\ IsFiniteSet(A) /\ IsFiniteSet(B) /\ Cardinality(A) \in Nat /\ Cardinality(B) \in Nat
  BY <1>3, HeapAssumption, FS_Subset, FS_CardinalityType
<1>5. \A b \in Addresses : block[b].usable \in Nat
  BY DEF HeapTypes, Memories
<1> HIDE DEF P, Q
<1>6. ASSUME a \notin P, a \in Q
      PROVE  /\ Cardinality(B) = Cardinality(A) + 1
             /\ Heap!Bytes(block, B) = Heap!Bytes(block, A) + block[a].usable
  <2>1. B = A \cup {a} /\ a \notin A
    BY <1>1, <1>2, <1>6 DEF Tagged, P, Q
  <2>2. Cardinality(A \cup {a}) = Cardinality(A) + 1
    BY <1>4, <2>1, FS_AddElement
  <2>3. Heap!Bytes(block, A \cup {a}) = Heap!Bytes(block, A) + block[a].usable
    <3>1. \A b \in A : block[b].usable \in Nat
      BY <1>3, <1>5
    <3> QED BY <1>4, <1>5, <2>1, <3>1, BytesPlus
  <2> QED BY <2>1, <2>2, <2>3
<1>7. ASSUME a \in P, a \notin Q
      PROVE  /\ Cardinality(B) = Cardinality(A) - 1
             /\ Heap!Bytes(block, B) = Heap!Bytes(block, A) - block[a].usable
  <2>1. A = B \cup {a} /\ a \notin B
    BY <1>1, <1>2, <1>7 DEF Tagged, P, Q
  <2>2. Cardinality(B \cup {a}) = Cardinality(B) + 1
    BY <1>4, <2>1, FS_AddElement
  <2>3. /\ Heap!Bytes(block, B \cup {a}) = Heap!Bytes(block, B) + block[a].usable
        /\ Heap!Bytes(block, B) \in Nat
    <3>1. \A b \in B : block[b].usable \in Nat
      BY <1>3, <1>5
    <3> QED BY <1>4, <1>5, <2>1, <3>1, BytesPlus
  <2>4. Cardinality(A) = Cardinality(B) + 1
        /\ Heap!Bytes(block, A) = Heap!Bytes(block, B) + block[a].usable
    BY <2>1, <2>2, <2>3, Zenon
  <2> QED BY <1>4, <1>5, <2>3, <2>4
<1> QED BY <1>6, <1>7 DEF P, Q

(* All but the counters, when a counter has moved.                         *)
LEMMA HeapSummed ==
    ASSUME HeapInv, NEW t \in Threads, NEW a, NEW c, NEW pc, Onward(t, a, c, pc),
           UNCHANGED <<block, live, early, odd, _nmt_level, _next_order_id, log>>,
           _native_alloc' \in [MEMFLAG -> Int], _native_count' \in [MEMFLAG -> Int],
           <<call[t].pc, pc>> \in {<<"bytes", "count">>, <<"count", "done">>}, Tallied'
    PROVE  HeapInv'
<1>1. HeapTypes /\ Owners /\ Untraced /\ Recorded /\ HistoryAlternates
  BY DEF HeapInv
<1>2. Moves(t, a, c) /\ a \in Addresses /\ c.pc = pc /\ c.type = call[t].type
  BY DEF Onward
<1>3. a \in Present(AfterLog, live', call') <=> a \in Present(AfterLog, live, call)
  <2>1. Seen(AfterLog, c) <=> Seen(AfterLog, call[t])
    BY <1>2 DEF Seen, AfterLog
  <2> QED BY <1>1, <2>1, GoesPresent
<1>4. Owners' /\ call' \in [Threads -> Calls]
  BY <1>1, <1>2, MovesOwners
<1>5. HeapTypes'
  BY <1>1, <1>4 DEF HeapTypes
<1>6. _nmt_level # "unknown"
  BY <1>1 DEF Untraced
<1>7. Untraced'
  BY <1>1, <1>2, <1>6, UntracedKept
<1>8. Recorded'
  BY <1>1, <1>2, <1>3, RecordedKept
<1>9. HistoryAlternates'
  BY <1>1, HistoryKept
<1> QED BY <1>4, <1>5, <1>7, <1>8, <1>9 DEF HeapInv

LEMMA HeapSummaryBytes ==
    ASSUME HeapInv, NEW t \in Threads, Heap!SummaryBytes(t), call[t].addr # null
    PROVE  HeapInv'
<1>1. HeapTypes /\ Owners /\ Untraced /\ Tallied
  BY DEF HeapInv
<1>2. /\ call[t].pc = "bytes" /\ call' = [call EXCEPT ![t].pc = "count"]
      /\ _native_alloc' = [_native_alloc EXCEPT ![call[t].F] = @ + Heap!Signed(t, call[t].bytes)]
      /\ UNCHANGED <<block, live, early, odd, _nmt_level, _native_count, _next_order_id, log>>
  BY DEF Heap!SummaryBytes
<1>3. call \in [Threads -> Calls] /\ call[t] \in Calls /\ _native_alloc \in [MEMFLAG -> Int]
      /\ _native_count \in [MEMFLAG -> Int]
  BY <1>1 DEF HeapTypes
<1>4. call' = [call EXCEPT ![t] = [call[t] EXCEPT !.pc = "count", !.order = call[t].order]]
  BY <1>2, <1>3 DEF Calls
<1>5. Goes(t, "count", call[t].order)
  BY <1>2, <1>3, <1>4 DEF Goes, Places, Calls
<1>6. PICK a, c : Onward(t, a, c, "count")
  BY <1>1, <1>5, CallGoes
<1>7. /\ Moves(t, a, c) /\ a \in Addresses /\ c.pc = "count" /\ c.type = call[t].type
      /\ c.type \in {"alloc", "free"} /\ call[t].F = block[a].F /\ call[t].F \in MEMFLAG
      /\ call[t].F \notin odd => call[t].bytes = block[a].usable
  BY <1>6 DEF Onward
<1>8. call[t].bytes \in Int
      /\ Heap!Signed(t, call[t].bytes) = IF call[t].type = "alloc" THEN call[t].bytes ELSE -call[t].bytes
  BY <1>3 DEF Calls, Heap!Signed
<1>9. _native_alloc' \in [MEMFLAG -> Int]
      /\ \A F \in MEMFLAG : _native_alloc'[F] =
            IF F # call[t].F THEN _native_alloc[F]
            ELSE IF call[t].type = "alloc" THEN _native_alloc[F] + call[t].bytes
                 ELSE _native_alloc[F] - call[t].bytes
  BY <1>2, <1>3, <1>7, <1>8
<1>10. /\ \A after : a \in Present(after, live', call') <=> Seen(after, c)
       /\ \A after : a \in Present(after, live, call) <=> Seen(after, call[t])
  BY <1>1, <1>2, <1>6, GoesPresent
<1>11. Tallied'
  <2> SUFFICES ASSUME _nmt_level' \in {"unknown", "summary", "detail"}, NEW F \in MEMFLAG \ odd'
               PROVE  TalliedFor(F)'
    BY DEF Tallied
  <2> DEFINE A == Tagged(F, block, Present(AfterBytes, live, call))
             B == Tagged(F, block, Present(AfterBytes, live', call'))
  <2>1. F \in MEMFLAG \ odd /\ TalliedFor(F)
    BY <1>1, <1>2 DEF Tallied
  <2>2. Keeps(t, a, c, F, AfterCount)
    <3>1. Seen(AfterCount, c) <=> Seen(AfterCount, call[t])
      BY <1>2, <1>7 DEF Seen, AfterCount
    <3> QED BY <1>2, <1>10, <3>1 DEF Keeps
  <2>3. Tagged(F, block', Present(AfterCount, live', call')) = Tagged(F, block, Present(AfterCount, live, call))
    BY <1>1, <1>7, <2>2, TagKept
  <2>4. _native_count'[F] = Cardinality(Tagged(F, block', Present(AfterCount, live', call')))
    BY <1>2, <2>1, <2>3 DEF TalliedFor
  <2>5. _native_alloc[F] = Heap!Bytes(block, A)
    BY <2>1 DEF TalliedFor
  <2>6. _native_alloc'[F] = Heap!Bytes(block, B)
    <3>1. CASE F # call[t].F
      <4>1. Keeps(t, a, c, F, AfterBytes)
        BY <1>2, <1>7, <3>1 DEF Keeps
      <4>2. Heap!Bytes(block', Tagged(F, block', Present(AfterBytes, live', call'))) = Heap!Bytes(block, A)
        BY <1>1, <1>7, <4>1, TagKept
      <4>3. Heap!Bytes(block, B) = Heap!Bytes(block, A)
        BY <1>2, <4>2
      <4> QED BY <1>9, <2>1, <2>5, <3>1, <4>3
    <3>2. CASE F = call[t].F
      <4>1. F = block[a].F /\ call[t].bytes = block[a].usable
        BY <1>7, <2>1, <3>2
      <4>2. (Seen(AfterBytes, c) <=> c.type = "alloc") /\ (Seen(AfterBytes, call[t]) <=> c.type # "alloc")
        BY <1>2, <1>7 DEF Seen, AfterBytes
      <4>3. (a \in Present(AfterBytes, live', call') <=> c.type = "alloc")
            /\ (a \in Present(AfterBytes, live, call) <=> c.type # "alloc")
        BY <1>10, <4>2
      <4>4. A = Tagged(block[a].F, block, Present(AfterBytes, live, call))
            /\ B = Tagged(block[a].F, block, Present(AfterBytes, live', call'))
        BY <4>1
      <4> HIDE DEF A, B
      <4>5. Heap!Bytes(block, B) = IF c.type = "alloc" THEN Heap!Bytes(block, A) + block[a].usable
                                   ELSE Heap!Bytes(block, A) - block[a].usable
        <5>1. HeapTypes /\ Moves(t, a, c) /\ block' = block /\ a \in Addresses /\ t \in Threads
          BY <1>1, <1>2, <1>7
        <5>2. a \notin Present(AfterBytes, live, call) /\ a \in Present(AfterBytes, live', call')
                => Heap!Bytes(block, B) = Heap!Bytes(block, A) + block[a].usable
          BY ONLY <5>1, <4>4, TagMoved
        <5>3. a \in Present(AfterBytes, live, call) /\ a \notin Present(AfterBytes, live', call')
                => Heap!Bytes(block, B) = Heap!Bytes(block, A) - block[a].usable
          BY ONLY <5>1, <4>4, TagMoved
        <5> QED BY <4>3, <5>2, <5>3
      <4> QED BY <1>7, <1>9, <2>1, <2>5, <3>2, <4>1, <4>5
    <3> QED BY <3>1, <3>2
  <2>7. _native_alloc'[F] = Heap!Bytes(block', Tagged(F, block', Present(AfterBytes, live', call')))
    BY <1>2, <2>6
  <2> QED BY <2>4, <2>7 DEF TalliedFor
<1> QED BY <1>2, <1>3, <1>6, <1>9, <1>11, HeapSummed

LEMMA HeapSummaryCount ==
    ASSUME HeapInv, NEW t \in Threads, Heap!SummaryCount(t), call[t].addr # null
    PROVE  HeapInv'
<1>1. HeapTypes /\ Owners /\ Untraced /\ Tallied
  BY DEF HeapInv
<1>2. /\ call[t].pc = "count" /\ call' = [call EXCEPT ![t].pc = "done"]
      /\ _native_count' = [_native_count EXCEPT ![call[t].F] = @ + Heap!Signed(t, 1)]
      /\ UNCHANGED <<block, live, early, odd, _nmt_level, _native_alloc, _next_order_id, log>>
  BY DEF Heap!SummaryCount
<1>3. call \in [Threads -> Calls] /\ call[t] \in Calls /\ _native_alloc \in [MEMFLAG -> Int]
      /\ _native_count \in [MEMFLAG -> Int]
  BY <1>1 DEF HeapTypes
<1>4. call' = [call EXCEPT ![t] = [call[t] EXCEPT !.pc = "done", !.order = call[t].order]]
  BY <1>2, <1>3 DEF Calls
<1>5. Goes(t, "done", call[t].order)
  BY <1>2, <1>3, <1>4 DEF Goes, Places, Calls
<1>6. PICK a, c : Onward(t, a, c, "done")
  BY <1>1, <1>5, CallGoes
<1>7. /\ Moves(t, a, c) /\ a \in Addresses /\ c.pc = "done" /\ c.type = call[t].type
      /\ c.type \in {"alloc", "free"} /\ call[t].F = block[a].F /\ call[t].F \in MEMFLAG
  BY <1>6 DEF Onward
<1>8. Heap!Signed(t, 1) = IF call[t].type = "alloc" THEN 1 ELSE -1
  BY DEF Heap!Signed
<1>9. _native_count' \in [MEMFLAG -> Int]
      /\ \A F \in MEMFLAG : _native_count'[F] =
            IF F # call[t].F THEN _native_count[F]
            ELSE IF call[t].type = "alloc" THEN _native_count[F] + 1 ELSE _native_count[F] - 1
  BY <1>2, <1>3, <1>7, <1>8
<1>10. /\ \A after : a \in Present(after, live', call') <=> Seen(after, c)
       /\ \A after : a \in Present(after, live, call) <=> Seen(after, call[t])
  BY <1>1, <1>2, <1>6, GoesPresent
<1>11. Tallied'
  <2> SUFFICES ASSUME _nmt_level' \in {"unknown", "summary", "detail"}, NEW F \in MEMFLAG \ odd'
               PROVE  TalliedFor(F)'
    BY DEF Tallied
  <2> DEFINE A == Tagged(F, block, Present(AfterCount, live, call))
             B == Tagged(F, block, Present(AfterCount, live', call'))
  <2>1. F \in MEMFLAG \ odd /\ TalliedFor(F)
    BY <1>1, <1>2 DEF Tallied
  <2>2. Keeps(t, a, c, F, AfterBytes)
    <3>1. Seen(AfterBytes, c) <=> Seen(AfterBytes, call[t])
      BY <1>2, <1>7 DEF Seen, AfterBytes
    <3> QED BY <1>2, <1>10, <3>1 DEF Keeps
  <2>3. Heap!Bytes(block', Tagged(F, block', Present(AfterBytes, live', call')))
          = Heap!Bytes(block, Tagged(F, block, Present(AfterBytes, live, call)))
    BY <1>1, <1>7, <2>2, TagKept
  <2>4. _native_alloc'[F] = Heap!Bytes(block', Tagged(F, block', Present(AfterBytes, live', call')))
    BY <1>2, <2>1, <2>3 DEF TalliedFor
  <2>5. _native_count[F] = Cardinality(A)
    BY <2>1 DEF TalliedFor
  <2>6. _native_count'[F] = Cardinality(B)
    <3>1. CASE F # call[t].F
      <4>1. Keeps(t, a, c, F, AfterCount)
        BY <1>2, <1>7, <3>1 DEF Keeps
      <4>2. Tagged(F, block', Present(AfterCount, live', call')) = A
        BY <1>1, <1>7, <4>1, TagKept
      <4>3. B = A
        BY <1>2, <4>2
      <4> QED BY <1>9, <2>1, <2>5, <3>1, <4>3
    <3>2. CASE F = call[t].F
      <4>1. F = block[a].F
        BY <1>7, <2>1, <3>2
      <4>2. (Seen(AfterCount, c) <=> c.type = "alloc") /\ (Seen(AfterCount, call[t]) <=> c.type # "alloc")
        BY <1>2, <1>7 DEF Seen, AfterCount
      <4>3. (a \in Present(AfterCount, live', call') <=> c.type = "alloc")
            /\ (a \in Present(AfterCount, live, call) <=> c.type # "alloc")
        BY <1>10, <4>2
      <4>4. A = Tagged(block[a].F, block, Present(AfterCount, live, call))
            /\ B = Tagged(block[a].F, block, Present(AfterCount, live', call'))
        BY <4>1
      <4> HIDE DEF A, B
      <4>5. Cardinality(B) = IF c.type = "alloc" THEN Cardinality(A) + 1 ELSE Cardinality(A) - 1
        <5>1. HeapTypes /\ Moves(t, a, c) /\ block' = block /\ a \in Addresses /\ t \in Threads
          BY <1>1, <1>2, <1>7
        <5>2. a \notin Present(AfterCount, live, call) /\ a \in Present(AfterCount, live', call')
                => Cardinality(B) = Cardinality(A) + 1
          BY ONLY <5>1, <4>4, TagMoved
        <5>3. a \in Present(AfterCount, live, call) /\ a \notin Present(AfterCount, live', call')
                => Cardinality(B) = Cardinality(A) - 1
          BY ONLY <5>1, <4>4, TagMoved
        <5> QED BY <4>3, <5>2, <5>3
      <4> QED BY <1>7, <1>9, <2>1, <2>5, <3>2, <4>5
    <3> QED BY <3>1, <3>2
  <2>7. _native_count'[F] = Cardinality(Tagged(F, block', Present(AfterCount, live', call')))
    BY <1>2, <2>6
  <2> QED BY <2>4, <2>7 DEF TalliedFor
<1> QED BY <1>2, <1>3, <1>6, <1>9, <1>11, HeapSummed

(* The end of a call: its block is the caller's, or free.                  *)
LEMMA HeapReturn ==
    ASSUME HeapInv, NEW t \in Threads, Heap!Return(t), call[t].addr # null
    PROVE  HeapInv'
<1> DEFINE a == call[t].addr
           c == Heap!Idle
<1>1. HeapTypes /\ Owners /\ Untraced /\ Recorded /\ Tallied /\ HistoryAlternates
  BY DEF HeapInv
<1>2. /\ call[t].pc = "done" /\ call' = [call EXCEPT ![t] = c]
      /\ UNCHANGED <<_nmt_level, _native_alloc, _native_count, _next_order_id, log, early, odd>>
      /\ IF call[t].type = "alloc" THEN live' = live \cup {a} /\ block' = block
         ELSE /\ block' = [b \in Addresses |-> IF b = a THEN Heap!FreeBlock ELSE block[b]]
              /\ live' = live
  BY DEF Heap!Return
<1>3. /\ a \in Addresses \ live /\ block[a].F = call[t].F /\ block[a].F # null /\ block[a].usable > 0
      /\ null \notin Addresses
  BY <1>1, <1>2, HeapAssumption DEF Owners, Resting, Working, Nulling
<1>4. c \in Calls /\ Resting(c) /\ c.addr = null
  BY DEF Heap!Idle, Calls, Places, Resting
<1>5. block' \in Memories /\ \A b \in Addresses \ {a} : block'[b] = block[b]
  BY <1>1, <1>2, <1>3 DEF Memories, HeapTypes, Heap!FreeBlock
<1>6. \A u \in Threads \ {t} : call[u].addr # a
  BY <1>1, <1>3 DEF Owners
<1>7. /\ live' \ {a} = live \ {a} /\ live' \subseteq Addresses
      /\ a \in live' => block'[a].F # null /\ block'[a].usable > 0
  BY <1>1, <1>2, <1>3 DEF HeapTypes
<1>8. call[t].addr = a
  OBVIOUS
<1> HIDE DEF a, c
<1>9. Moves(t, a, c)
  BY <1>1, <1>2, <1>4, <1>5, <1>6, <1>7, <1>8 DEF Moves, HeapTypes
<1>10. Owners' /\ call' \in [Threads -> Calls]
  BY <1>1, <1>3, <1>9, MovesOwners
<1>11. HeapTypes'
  BY <1>1, <1>2, <1>5, <1>7, <1>10 DEF HeapTypes
<1>12. _nmt_level = "unknown" => (a \in live' => block'[a].F \in odd' /\ a \in early')
  BY <1>1, <1>2, <1>3, <1>8 DEF Untraced
<1>13. c.pc = "idle"
  BY <1>4 DEF Resting
<1>14. Untraced'
  BY <1>1, <1>2, <1>3, <1>4, <1>9, <1>12, <1>13, UntracedKept
<1>15. ASSUME NEW after, after \in {AfterLog, AfterCount, AfterBytes}
       PROVE  /\ a \in Present(after, live', call') <=> call[t].type = "alloc"
              /\ a \in Present(after, live, call) <=> call[t].type = "alloc"
  <2>1. HeapTypes /\ Moves(t, a, c) /\ a \in Addresses /\ t \in Threads
    BY <1>1, <1>3, <1>9
  <2>2. a \in Present(after, live', call') <=> a \in live' \/ (c.addr = a /\ Seen(after, c))
    BY ONLY <2>1, MovesPresent
  <2>3. a \in Present(after, live, call) <=> a \in live \/ (call[t].addr = a /\ Seen(after, call[t]))
    BY ONLY <2>1, MovesPresent
  <2>4. Seen(after, call[t]) <=> call[t].type = "alloc"
    BY <1>2, <1>15 DEF Seen, AfterLog, AfterCount, AfterBytes
  <2>5. a \in live' <=> call[t].type = "alloc"
    BY <1>2, <1>3
  <2> QED BY <1>3, <1>4, <1>8, <2>2, <2>3, <2>4, <2>5
<1>16. Recorded'
  BY <1>1, <1>2, <1>3, <1>9, <1>15, RecordedKept
<1>17. Tallied'
  <2>1. ASSUME NEW F \in MEMFLAG \ odd', NEW after, after \in {AfterCount, AfterBytes}
        PROVE  Keeps(t, a, c, F, after)
    BY <1>2, <1>15, <2>1 DEF Keeps
  <2> QED BY <1>1, <1>2, <1>3, <1>9, <2>1, TalliedKept
<1>18. HistoryAlternates'
  BY <1>1, <1>2, HistoryKept
<1> QED BY <1>10, <1>11, <1>14, <1>16, <1>17, <1>18 DEF HeapInv

(* Null is released: a call without a block.                               *)
LEMMA HeapFreedNull ==
    ASSUME HeapInv, NEW t \in Threads, NEW F \in MEMFLAG, Heap!FreeNull(t, F)
    PROVE  HeapInv'
<1> DEFINE c == Heap!FreeCall(null, F, 0)
<1>1. /\ call[t].pc = "idle" /\ odd' = odd \cup {F} /\ call' = [call EXCEPT ![t] = c]
      /\ UNCHANGED <<block, live, _nmt_level, _native_alloc, _native_count, _next_order_id, log, early>>
  BY DEF Heap!FreeNull
<1>2. HeapTypes /\ Owners /\ F # null /\ _nmt_level \in {"off", "summary", "detail", "unknown"}
  BY HeapAssumption DEF HeapInv, HeapTypes
<1>3. /\ c.pc = Heap!RecordStart /\ c.type = "free" /\ c.F = F /\ c.addr = null
      /\ c.bytes = 0 /\ c.order = 0
  BY DEF Heap!FreeCall
<1>4. /\ _nmt_level = "detail" => c.pc = "order"
      /\ _nmt_level = "summary" => c.pc = "bytes"
      /\ _nmt_level \in {"unknown", "off"} => c.pc = "done"
  BY <1>2, <1>3 DEF Heap!RecordStart
<1>5. c \in Calls
  <2>1. c.pc \in Places
    BY <1>2, <1>4 DEF Places
  <2> QED BY <1>2, <2>1 DEF Calls, Heap!FreeCall
<1>6. call[t].addr = null
  BY <1>1, <1>2 DEF Owners, Resting, Working, Nulling
<1> HIDE DEF c
<1>7. Nulling(c, odd')
  BY <1>1, <1>2, <1>3, <1>4 DEF Nulling
<1>8. NullMoves(t, c)
  BY <1>1, <1>2, <1>4, <1>5, <1>6, <1>7 DEF NullMoves, HeapTypes
<1> QED BY <1>1, <1>8, HeapNulled

LEMMA HeapNullCall ==
    ASSUME HeapInv, NEW t \in Threads, call[t].addr = null,
           \/ Heap!DetailOrder(t) \/ Heap!DetailWrite(t) \/ Heap!SummaryBytes(t)
           \/ Heap!SummaryCount(t) \/ Heap!Return(t)
    PROVE  HeapInv'
<1>1. HeapTypes /\ Owners /\ Untraced
  BY DEF HeapInv
<1>2. /\ call \in [Threads -> Calls] /\ call[t] \in Calls /\ _next_order_id \in Nat
      /\ _native_alloc \in [MEMFLAG -> Int] /\ _native_count \in [MEMFLAG -> Int]
      /\ _nmt_level \in Levels \cup {"unknown"}
  BY <1>1 DEF HeapTypes
<1>3. call[t].pc # "idle" /\ call[t].pc # "done" => _nmt_level # "unknown"
  BY <1>1 DEF Untraced
<1>4. call[t].pc \in {"order", "log"} => _nmt_level = "detail"
  BY <1>1 DEF Untraced
<1>10. call[t].pc # "idle" => call[t].F \in MEMFLAG
  BY <1>1, <1>2, HeapAssumption DEF Owners, Resting, Working, Nulling, Calls
<1>5. CASE Heap!DetailOrder(t)
  <2> DEFINE c == [call[t] EXCEPT !.pc = "log", !.order = _next_order_id]
  <2>1. /\ call[t].pc = "order" /\ _next_order_id' = (_next_order_id + 1) % OrderIds
        /\ call' = [call EXCEPT ![t].pc = "log", ![t].order = _next_order_id]
        /\ UNCHANGED <<block, live, early, odd, _nmt_level, _native_alloc, _native_count, log>>
    BY <1>5 DEF Heap!DetailOrder
  <2>2. call' = [call EXCEPT ![t] = c] /\ _next_order_id' \in Nat /\ "log" \in Places
    <3>1. _next_order_id' \in Nat
      BY <1>2, <2>1, HeapAssumption
    <3> QED BY <1>2, <2>1, <3>1 DEF Places
  <2>3. NullMoves(t, c)
    BY <1>2, <1>3, <1>4, <2>1, <2>2, HeapNullStep
  <2> HIDE DEF c
  <2> QED BY <2>1, <2>3, HeapNulled
<1>6. CASE Heap!DetailWrite(t)
  <2> DEFINE c == [call[t] EXCEPT !.pc = "bytes", !.order = call[t].order]
             r == [type |-> call[t].type, addr |-> call[t].addr, bytes |-> call[t].bytes,
                   order |-> call[t].order]
  <2>1. /\ call[t].pc = "log" /\ log' = Append(log, r)
        /\ call' = [call EXCEPT ![t].pc = "bytes"]
        /\ UNCHANGED <<block, live, early, odd, _nmt_level, _native_alloc, _native_count, _next_order_id>>
    BY <1>6 DEF Heap!DetailWrite, Heap!AfterDetail
  <2>2. call' = [call EXCEPT ![t] = c] /\ "bytes" \in Places /\ call[t].order \in Nat
    BY <1>2, <2>1 DEF Places, Calls
  <2>3. NullMoves(t, c)
    BY <1>2, <1>3, <1>4, <2>1, <2>2, HeapNullStep
  <2>4. r \in Records /\ r.addr = null
    <3>1. call[t].type = "free"
      BY <1>1, <2>1, HeapAssumption DEF Owners, Resting, Working, Nulling
    <3> QED BY <1>2, <3>1 DEF Records, Calls
  <2> HIDE DEF c, r
  <2> QED BY <1>4, <2>1, <2>3, <2>4, HeapNulled
<1>7. CASE Heap!SummaryBytes(t)
  <2> DEFINE c == [call[t] EXCEPT !.pc = "count", !.order = call[t].order]
  <2>1. /\ call[t].pc = "bytes" /\ call' = [call EXCEPT ![t].pc = "count"]
        /\ _native_alloc' = [_native_alloc EXCEPT ![call[t].F] = @ + Heap!Signed(t, call[t].bytes)]
        /\ UNCHANGED <<block, live, early, odd, _nmt_level, _native_count, _next_order_id, log>>
    BY <1>7 DEF Heap!SummaryBytes
  <2>2. call' = [call EXCEPT ![t] = c] /\ "count" \in Places /\ call[t].order \in Nat
    BY <1>2, <2>1 DEF Places, Calls
  <2>5. /\ call[t].pc # "idle" /\ _nmt_level # "unknown" /\ _next_order_id' \in Nat
        /\ UNCHANGED <<block, live, early, odd, _nmt_level>>
    BY <1>2, <1>3, <2>1
  <2>3. /\ _native_alloc' \in [MEMFLAG -> Int] /\ _native_count' \in [MEMFLAG -> Int]
        /\ \A F \in MEMFLAG : F # call[t].F =>
              _native_alloc'[F] = _native_alloc[F] /\ _native_count'[F] = _native_count[F]
    <3>1. Heap!Signed(t, call[t].bytes) \in Int
      BY <1>2 DEF Calls, Heap!Signed
    <3> QED BY <1>2, <1>10, <2>1, <3>1
  <2>4. NullMoves(t, c)
    BY <2>2, <2>3, <2>5, HeapNullStep
  <2> HIDE DEF c
  <2> QED BY <2>1, <2>4, HeapNulled
<1>8. CASE Heap!SummaryCount(t)
  <2> DEFINE c == [call[t] EXCEPT !.pc = "done", !.order = call[t].order]
  <2>1. /\ call[t].pc = "count" /\ call' = [call EXCEPT ![t].pc = "done"]
        /\ _native_count' = [_native_count EXCEPT ![call[t].F] = @ + Heap!Signed(t, 1)]
        /\ UNCHANGED <<block, live, early, odd, _nmt_level, _native_alloc, _next_order_id, log>>
    BY <1>8 DEF Heap!SummaryCount
  <2>2. call' = [call EXCEPT ![t] = c] /\ "done" \in Places /\ call[t].order \in Nat
    BY <1>2, <2>1 DEF Places, Calls
  <2>5. /\ call[t].pc # "idle" /\ _nmt_level # "unknown" /\ _next_order_id' \in Nat
        /\ UNCHANGED <<block, live, early, odd, _nmt_level>>
    BY <1>2, <1>3, <2>1
  <2>3. /\ _native_count' \in [MEMFLAG -> Int] /\ _native_alloc' \in [MEMFLAG -> Int]
        /\ \A F \in MEMFLAG : F # call[t].F =>
              _native_alloc'[F] = _native_alloc[F] /\ _native_count'[F] = _native_count[F]
    <3>1. Heap!Signed(t, 1) \in Int
      BY DEF Heap!Signed
    <3> QED BY <1>2, <1>10, <2>1, <3>1
  <2>4. NullMoves(t, c)
    BY <2>2, <2>3, <2>5, HeapNullStep
  <2> HIDE DEF c
  <2> QED BY <2>1, <2>4, HeapNulled
<1>9. CASE Heap!Return(t)
  <2> DEFINE c == Heap!Idle
  <2>1. /\ call[t].pc = "done" /\ call' = [call EXCEPT ![t] = c]
        /\ UNCHANGED <<_nmt_level, _native_alloc, _native_count, _next_order_id, log, early, odd>>
        /\ IF call[t].type = "alloc" THEN live' = live \cup {null} /\ block' = block
           ELSE /\ block' = [b \in Addresses |-> IF b = null THEN Heap!FreeBlock ELSE block[b]]
                /\ live' = live
    BY <1>9 DEF Heap!Return
  <2>2. call[t].type = "free"
    BY <1>1, <2>1, HeapAssumption DEF Owners, Resting, Working, Nulling
  <2>3. live' = live /\ block' = block
    BY <1>1, <2>1, <2>2, HeapAssumption DEF HeapTypes, Memories
  <2>4. c \in Calls /\ Resting(c) /\ c.pc = "idle"
    BY DEF Heap!Idle, Calls, Places, Resting
  <2> HIDE DEF c
  <2>5. NullMoves(t, c)
    BY <1>2, <2>1, <2>3, <2>4 DEF NullMoves
  <2> QED BY <2>1, <2>5, HeapNulled
<1> QED BY <1>5, <1>6, <1>7, <1>8, <1>9

LEMMA HeapInitialize ==
    ASSUME HeapInv, NEW level \in Levels, Heap!Initialize(level)
    PROVE  HeapInv'
<1>1. HeapTypes /\ Owners /\ Untraced /\ Recorded /\ Tallied /\ HistoryAlternates
  BY DEF HeapInv
<1>2. /\ _nmt_level = "unknown" /\ _nmt_level' = level /\ level # "unknown"
      /\ UNCHANGED <<block, live, _native_alloc, _native_count, _next_order_id, log, call, early, odd>>
  BY HeapAssumption DEF Heap!Initialize
<1>3. HeapTypes' /\ Owners'
  BY <1>1, <1>2 DEF HeapTypes, Owners
<1>4. Untraced'
  BY <1>1, <1>2 DEF Untraced
<1>5. Recorded' /\ Tallied'
  BY <1>1, <1>2 DEF Recorded, Tallied, TalliedFor
<1>6. HistoryAlternates'
  BY <1>1, <1>2, HistoryKept
<1> QED BY <1>3, <1>4, <1>5, <1>6 DEF HeapInv

LEMMA HeapInit == Heap!Init => HeapInv
<1> SUFFICES ASSUME Heap!Init PROVE HeapInv
  OBVIOUS
<1>1. /\ block = [a \in Addresses |-> Heap!FreeBlock] /\ live = {} /\ _nmt_level = "unknown"
      /\ _native_alloc = [F \in MEMFLAG |-> 0] /\ _native_count = [F \in MEMFLAG |-> 0]
      /\ _next_order_id = 0 /\ log = <<>> /\ call = [t \in Threads |-> Heap!Idle]
      /\ early = {} /\ odd = {}
  BY DEF Heap!Init
<1>2. Heap!Idle \in Calls /\ Resting(Heap!Idle) /\ Heap!Idle.pc = "idle" /\ null \notin Addresses
  BY HeapAssumption DEF Heap!Idle, Calls, Places, Resting
<1>3. block \in Memories
  BY <1>1 DEF Memories, Heap!FreeBlock
<1>4. HeapTypes
  BY <1>1, <1>2, <1>3 DEF HeapTypes
<1>5. \A t \in Threads : Resting(call[t]) /\ call[t].pc = "idle"
  BY <1>1, <1>2
<1>6. Owners
  BY <1>1, <1>5 DEF Owners, Resting
<1>7. Untraced
  BY <1>1, <1>5 DEF Untraced, Resting
<1>8. Recorded
  <2>1. \A a \in Addresses : NoneOf(log, a)
    BY <1>1 DEF NoneOf
  <2>2. \A a \in Addresses : a \notin Present(AfterLog, live, call)
    BY <1>1, <1>2, <1>5 DEF Present, Resting
  <2> QED BY <2>1, <2>2 DEF Recorded
<1>9. Tallied
  <2> SUFFICES ASSUME NEW F \in MEMFLAG PROVE TalliedFor(F)
    BY DEF Tallied
  <2>1. ASSUME NEW after PROVE Tagged(F, block, Present(after, live, call)) = {}
    BY <1>1, <1>2, <1>5 DEF Tagged, Present, Resting
  <2>2. Cardinality({}) = 0 /\ Heap!Bytes(block, {}) = 0
    BY FS_EmptySet, BytesEmpty
  <2> QED BY <1>1, <2>1, <2>2 DEF TalliedFor
<1>10. HistoryAlternates
  BY <1>1 DEF HistoryAlternates, Heap!HistoryAlternates
<1> QED BY <1>4, <1>6, <1>7, <1>8, <1>9, <1>10 DEF HeapInv

LEMMA HeapStep == HeapInv /\ [Heap!Next]_(Heap!vars) => HeapInv'
<1> SUFFICES ASSUME HeapInv, [Heap!Next]_(Heap!vars) PROVE HeapInv'
  OBVIOUS
<1>1. ASSUME NEW level \in Levels, Heap!Initialize(level) PROVE HeapInv'
  BY <1>1, HeapInitialize
<1>2. ASSUME NEW t \in Threads, NEW a \in Addresses, NEW F \in MEMFLAG, NEW bytes \in Sizes,
             Heap!Alloc(t, a, F, bytes)
      PROVE  HeapInv'
  <2> DEFINE c == [pc |-> Heap!RecordStart, type |-> "alloc", F |-> F, addr |-> a,
                   bytes |-> Heap!usable(bytes), order |-> 0]
  <2>1. /\ Heap!Malloc(t, a, F, bytes) /\ call' = [call EXCEPT ![t] = c]
        /\ odd' = IF _nmt_level = "unknown" THEN odd \cup {F} ELSE odd
        /\ UNCHANGED <<live, _nmt_level, _native_alloc, _native_count, _next_order_id, log>>
    BY <1>2 DEF Heap!Alloc
  <2>2. Heap!usable(bytes) \in Nat
    BY UsableBytes, HeapAssumption
  <2>3. odd' \in {odd, odd \cup {F}} /\ (_nmt_level = "unknown" => F \in odd')
    BY <2>1
  <2> QED BY <2>1, <2>2, <2>3, HeapAllocated
<1>3. ASSUME NEW t \in Threads, NEW a \in Addresses, NEW F \in MEMFLAG, NEW bytes \in Sizes,
             NEW align \in Sizes, Heap!AllocAlign(t, a, F, bytes, align)
      PROVE  HeapInv'
  <2> DEFINE c == [pc |-> Heap!RecordStart, type |-> "alloc", F |-> F, addr |-> a,
                   bytes |-> bytes, order |-> 0]
  <2>1. /\ Heap!Malloc(t, a, F, align) /\ call' = [call EXCEPT ![t] = c]
        /\ odd' = odd \cup {F}
        /\ UNCHANGED <<live, _nmt_level, _native_alloc, _native_count, _next_order_id, log>>
    BY <1>3 DEF Heap!AllocAlign
  <2>2. bytes \in Nat
    BY HeapAssumption
  <2>3. odd' \in {odd, odd \cup {F}} /\ F \in odd'
    BY <2>1
  <2> QED BY <2>1, <2>2, <2>3, HeapAllocated
<1>4. ASSUME NEW t \in Threads, NEW a \in live, NEW F \in MEMFLAG, Heap!Free(t, a, F)
      PROVE  HeapInv'
  BY <1>4, HeapFreed
<1>7. ASSUME NEW t \in Threads, NEW F \in MEMFLAG, Heap!FreeNull(t, F) PROVE HeapInv'
  BY <1>7, HeapFreedNull
<1>5. ASSUME NEW t \in Threads,
             Heap!DetailOrder(t) \/ Heap!DetailWrite(t) \/ Heap!SummaryBytes(t)
               \/ Heap!SummaryCount(t) \/ Heap!Return(t)
      PROVE  HeapInv'
  <2>1. CASE call[t].addr = null
    BY <1>5, <2>1, HeapNullCall
  <2>2. CASE call[t].addr # null
    BY <1>5, <2>2, HeapDetailOrder, HeapDetailWrite, HeapSummaryBytes, HeapSummaryCount, HeapReturn
  <2> QED BY <2>1, <2>2
<1>6. CASE UNCHANGED Heap!vars
  <2>1. UNCHANGED <<block, live, _nmt_level, _native_alloc, _native_count, _next_order_id, log, call,
                 early, odd>>
    BY <1>6 DEF Heap!vars
  <2>2. HeapTypes' /\ Owners' /\ Untraced' /\ Recorded' /\ Tallied'
    BY <2>1 DEF HeapInv, HeapTypes, Owners, Untraced, Recorded, Tallied, TalliedFor
  <2>3. HistoryAlternates'
    BY <2>1, HistoryKept DEF HeapInv
  <2> QED BY <2>2, <2>3 DEF HeapInv
<1> QED
  BY <1>1, <1>2, <1>3, <1>4, <1>5, <1>6, <1>7 DEF Heap!Next

LEMMA HeapAlways == Heap!Spec => []HeapInv
BY HeapInit, HeapStep, PTL DEF Heap!Spec

(* Whoever allocates and frees at once, wherever malloc gives an address a *)
(* second time, and whoever frees null: read from its beginning, the detail*)
(* log tells of every address malloc gives, in turns, that it was allocated*)
(* and freed, and begins with its allocation unless malloc gave it before  *)
(* the tracing (allocation.cpp:45-51, 84-92, DetailLogMemory.cpp:23-46).   *)
THEOREM HeapHistoryAlternates == Heap!Spec => []HistoryAlternates
<1>1. HeapInv => HistoryAlternates
  BY DEF HeapInv
<1> QED BY <1>1, HeapAlways, PTL

(* The counters of a tag are the number and the bytes of the blocks in use *)
(* whenever no call with the tag is under way - for the tags whose blocks  *)
(* are all traced, not aligned and released under the tag they were        *)
(* allocated with, and that never released null                            *)
(* (SummaryMemory.cpp:33-41, MemoryTracer.cpp:18-27).                      *)
THEOREM HeapCountersMatchBlocks == Heap!Spec => []CountersMatchBlocks
<1>1. HeapInv => CountersMatchBlocks
  <2> SUFFICES ASSUME HeapInv, _nmt_level \in {"summary", "detail"}, NEW F \in MEMFLAG \ odd,
                      \A t \in Threads : call[t].F # F
               PROVE  /\ _native_count[F] = Heap!Cardinality({a \in live : block[a].F = F})
                      /\ _native_alloc[F] = Heap!Bytes(block, {a \in live : block[a].F = F})
    BY DEF CountersMatchBlocks, Heap!CountersMatchBlocks
  <2>1. HeapTypes /\ Owners /\ TalliedFor(F) /\ null \notin Addresses
    BY HeapAssumption DEF HeapInv, Tallied
  <2>2. ASSUME NEW after
        PROVE  Tagged(F, block, Present(after, live, call)) = {a \in live : block[a].F = F}
    <3>1. \A t \in Threads : call[t].addr \in Addresses => block[call[t].addr].F # F
      BY <2>1 DEF Owners, Resting, Working, Nulling
    <3> QED BY <2>1, <3>1 DEF Tagged, Present, HeapTypes
  <2> QED BY <2>1, <2>2, SameHeapCardinality DEF TalliedFor
<1> QED BY <1>1, HeapAlways, PTL
=============================================================================
