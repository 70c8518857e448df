------------------------------- MODULE BitMap -------------------------------
(***************************************************************************)
(* The bit map of the kernel (kernel/utils/BitMap.cpp) and its growable    *)
(* heap version (BitMap.hpp), of which a volume's CommittedMask is one.    *)
(* Ranges are set, cleared and counted word by word; single bits can also  *)
(* be changed by compare-and-swap.                                         *)
(*                                                                         *)
(* A word is the set of its bits that are 1.  Ranges are for one thread at *)
(* a time (a CommittedMask changes under Metaspace_lock); threads that     *)
(* change single bits interleave.                                          *)
(***************************************************************************)
EXTENDS Integers, FiniteSets

CONSTANTS
    Threads,
    NoError,            \* the program runs
    BitsPerWord,
    MaxBits             \* bound: bits of the map

VARIABLES
    _map,               \* the words of the memory allocated
    _total_bits,
    par,                \* the threads inside par_set_bit and par_clear_bit
    marked,             \* history: the bits a caller may expect to be 1
    par_set,            \* history: par_set_bit has changed a word
    vm_error            \* what stopped the program

vars == <<_map, _total_bits, par, marked, par_set, vm_error>>

word_index_align_down(bit)  == bit \div BitsPerWord
word_index_align_up(bit)    == word_index_align_down(bit + BitsPerWord - 1)
word_offset_in_word(bit)    == bit % BitsPerWord
word_index_bit_no(word)     == word * BitsPerWord
calc_words(bits)            == word_index_align_up(bits)
MIN2(a, b) == IF a < b THEN a ELSE b
Bits(b, e) == b..(e - 1)
Word == Bits(0, BitsPerWord)

(* bit_mask: ones for the length of the range, moved to its beginning.     *)
(* Shifting a one by the whole width of a word leaves no ones.             *)
bit_mask(b, e) ==
    LET low_bits == IF e - b = BitsPerWord THEN {} ELSE Bits(0, e - b)
    IN {word_offset_in_word(b) + i : i \in low_bits} \cap Word

(* What set_range, clear_range and count_range touch in word w: through    *)
(* a mask at both ends of the range (within), whole words in the middle.   *)
within(w, b, e) == IF b # e /\ word_index_align_down(b) = w THEN bit_mask(b, e) ELSE {}

\* Mutant: the end of the range is rounded up to a word.
touched_rounded_up(w, b, e) ==
    LET first == word_index_align_up(b)
        last  == word_index_align_up(e)
    IN IF first < last
       THEN IF w \in Bits(first, last) THEN Word ELSE within(w, b, word_index_bit_no(first))
       ELSE within(w, b, e)

touched(w, b, e) ==
    LET first == word_index_align_up(b)
        last  == word_index_align_down(e)
        boundary == MIN2(word_index_bit_no(first), e)
    IN IF first < last
       THEN IF w \in Bits(first, last) THEN Word
            ELSE within(w, b, word_index_bit_no(first))
                   \cup within(w, word_index_bit_no(last), e)
       ELSE within(w, b, boundary) \cup within(w, boundary, e)

Words == DOMAIN _map
AfterSet(b, e)   == [w \in Words |-> _map[w] \cup touched(w, b, e)]
AfterClear(b, e) == [w \in Words |-> _map[w] \ touched(w, b, e)]
at(bit) == word_offset_in_word(bit) \in _map[word_index_align_down(bit)]
count_range(b, e) ==
    Cardinality(UNION {{w} \X (_map[w] \cap touched(w, b, e)) : w \in Words})

NoCall == [bit |-> 0, sets |-> FALSE, old_val |-> {}, runs |-> FALSE]
Quiet  == vm_error = NoError /\ \A t \in Threads : ~par[t].runs

Init ==
    /\ _map = << >> /\ _total_bits = 0 /\ par = [t \in Threads |-> NoCall]
    /\ marked = {} /\ par_set = FALSE /\ vm_error = NoError

set_range(b, e) ==
    /\ Quiet /\ b <= e /\ e <= _total_bits
    /\ _map' = AfterSet(b, e) /\ marked' = marked \cup Bits(b, e)
    /\ UNCHANGED <<_total_bits, par, par_set, vm_error>>

clear_range(b, e) ==
    /\ Quiet /\ b <= e /\ e <= _total_bits
    /\ _map' = AfterClear(b, e) /\ marked' = marked \ Bits(b, e)
    /\ UNCHANGED <<_total_bits, par, par_set, vm_error>>

(* GrowableBitMap::resize.  New memory holds anything; the number of bits  *)
(* is stored with the new memory, so a map that keeps its words keeps its  *)
(* old number, and clearing more than that fails an assertion.             *)
Reallocate(new_bits, clear) ==
    /\ Quiet /\ calc_words(new_bits) # calc_words(_total_bits)
    /\ \E memory \in [Bits(0, calc_words(new_bits)) -> SUBSET Word] :
         /\ clear => \A w \in DOMAIN memory : memory[w] \cap touched(w, 0, new_bits) = {}
         /\ _map' = memory
         /\ marked' = {bit \in Bits(0, new_bits) :
              word_offset_in_word(bit) \in memory[word_index_align_down(bit)]}
    /\ _total_bits' = new_bits
    /\ UNCHANGED <<par, par_set, vm_error>>

KeepMemory(new_bits, clear) ==
    /\ Quiet /\ calc_words(new_bits) = calc_words(_total_bits)
    /\ IF clear /\ new_bits > _total_bits
       THEN vm_error' = "BitMap.cpp:56" /\ UNCHANGED <<_map, marked>>
       ELSE /\ _map' = IF clear THEN AfterClear(0, new_bits) ELSE _map
            /\ marked' = IF clear THEN marked \ Bits(0, new_bits) ELSE marked
            /\ UNCHANGED vm_error
    /\ UNCHANGED <<_total_bits, par, par_set>>

(* par_set_bit and par_clear_bit through par_change_through_mask: load,    *)
(* then compare-and-swap until nobody was faster or there is nothing to    *)
(* do.  par_set_bit, too, takes the bits under its mask: of the bits of    *)
(* the word only its own is left (BitMap.cpp:124, 99).                     *)
new_val(word, bit, sets) ==
    IF sets THEN word \cap {word_offset_in_word(bit)} ELSE word \ {word_offset_in_word(bit)}

Tries(t, bit, sets, old_val) ==
    IF old_val = new_val(old_val, bit, sets)
    THEN par' = [par EXCEPT ![t] = NoCall]
    ELSE par' = [par EXCEPT ![t] = [bit |-> bit, sets |-> sets, old_val |-> old_val, runs |-> TRUE]]

ParLoad(t, bit, sets) ==
    /\ vm_error = NoError /\ ~par[t].runs /\ bit < _total_bits
    /\ Tries(t, bit, sets, _map[word_index_align_down(bit)])
    /\ par_set' = (par_set \/ sets)
    /\ UNCHANGED <<_map, _total_bits, marked, vm_error>>

ParCas(t) ==
    LET bit  == par[t].bit
        sets == par[t].sets
        word == word_index_align_down(bit)
    IN /\ vm_error = NoError /\ par[t].runs
       /\ IF _map[word] = par[t].old_val
          THEN /\ _map' = [_map EXCEPT ![word] = new_val(par[t].old_val, bit, sets)]
               /\ marked' = IF sets THEN marked \cup {bit} ELSE marked \ {bit}
               /\ par' = [par EXCEPT ![t] = NoCall]
          ELSE Tries(t, bit, sets, _map[word]) /\ UNCHANGED <<_map, marked>>
       /\ UNCHANGED <<_total_bits, par_set, vm_error>>

Next ==
    \/ \E b, e \in 0..MaxBits : set_range(b, e) \/ clear_range(b, e)
    \/ \E bits \in 0..MaxBits, clear \in BOOLEAN :
          Reallocate(bits, clear) \/ KeepMemory(bits, clear)
    \/ \E t \in Threads, bit \in 0..MaxBits, sets \in BOOLEAN : ParLoad(t, bit, sets)
    \/ \E t \in Threads : ParCas(t)

Spec == Init /\ [][Next]_vars

-----------------------------------------------------------------------------
(* Every bit is 1 exactly if it was marked, and every range counts as many *)
(* bits as were marked in it: the masks at the ends of a range and the     *)
(* whole words between them touch each bit of the range and no other       *)
(* (BitMap.cpp:20-69), and threads that clear bits of one word at the same *)
(* time lose nothing of each other (BitMap.cpp:94).  Up to the first       *)
(* par_set_bit, that is.                                                   *)
BitsExact ==
    ~par_set =>
       /\ \A bit \in Bits(0, _total_bits) : at(bit) = (bit \in marked)
       /\ \A e \in 0.._total_bits : \A b \in 0..e :
            count_range(b, e) = Cardinality(marked \cap Bits(b, e))
=============================================================================
