---------------------------- MODULE GrowableArray ----------------------------
(***************************************************************************)
(* The arrays of the kernel (kernel/utils/GrowableArray.hpp): a FixedArray *)
(* with its length and capacity, and a GrowableArray, which copies itself  *)
(* to a larger memory when it is full - in a build without assertions, and *)
(* if its capacity is not a power of two.  Nothing in the repository uses  *)
(* one yet.                                                                *)
(***************************************************************************)
EXTENDS Integers, Sequences

CONSTANTS
    Elements,
    NoError,             \* the program runs
    MaxCapacity          \* bound: the capacity asked for

VARIABLES
    _data,               \* the memory: one place for each unit of capacity
    _len,
    debug_mode,          \* the build evaluates assertions, as the committed one does
    elements,            \* history: what the array accepted and did not give back
    lost,                \* history: append returned without having stored its element
    vm_error             \* what stopped the program

vars == <<_data, _len, debug_mode, elements, lost, vm_error>>

_capacity == Len(_data)
Runs == vm_error = NoError

(* The powers of two are the numbers without an odd divisor but 1.  There  *)
(* is one from n to 2n - 1.                                                *)
is_power_of_2(p) == p > 0 /\ \A d \in 2..p : p % d = 0 => d % 2 = 0
round_up_power_of_2(n) == CHOOSE p \in n..(2 * n - 1) : is_power_of_2(p)

(* The constructor expands the empty array to the capacity it is given.    *)
Init ==
    /\ \E n \in 1..MaxCapacity : _data \in [1..n -> Elements]
    /\ debug_mode \in BOOLEAN
    /\ _len = 0 /\ elements = <<>> /\ lost = FALSE /\ vm_error = NoError

Stored(e) == [_data EXCEPT ![_len + 1] = e]

push(e) ==
    /\ Runs
    /\ IF _len = _capacity THEN UNCHANGED <<_data, _len, elements>>
       ELSE _data' = Stored(e) /\ _len' = _len + 1 /\ elements' = Append(elements, e)
    /\ UNCHANGED <<debug_mode, lost, vm_error>>

(* The whole of a larger memory: the elements, e, and what the memory held.*)
Copied(e, memory) ==
    [i \in DOMAIN memory |-> IF i <= _len THEN _data[i] ELSE IF i = _len + 1 THEN e ELSE memory[i]]

(* append expands a full array to the next power of two.  With assertions  *)
(* round_up_power_of_2 takes 1 for the largest power of two, max_power_2   *)
(* being a bool, and expand_to wants more than there was.  Without them an *)
(* array whose capacity is a power of two moves to a memory of the same    *)
(* size, push has no place for e, and append drops it.                     *)
append(e) ==
    LET new_capacity == round_up_power_of_2(_capacity)
    IN  /\ Runs /\ UNCHANGED debug_mode
        /\ \/ /\ _len < _capacity
              /\ _data' = Stored(e) /\ _len' = _len + 1 /\ elements' = Append(elements, e)
              /\ UNCHANGED <<lost, vm_error>>
           \/ /\ _len = _capacity /\ debug_mode
              /\ vm_error' = IF _capacity > 1 THEN "align.hpp:95" ELSE "GrowableArray.hpp:160"
              /\ UNCHANGED <<_data, _len, elements, lost>>
           \/ /\ _len = _capacity /\ ~debug_mode /\ new_capacity > _capacity
              /\ \E memory \in [1..new_capacity -> Elements] : _data' = Copied(e, memory)
              /\ _len' = _len + 1 /\ elements' = Append(elements, e)
              /\ UNCHANGED <<lost, vm_error>>
           \/ /\ _len = _capacity /\ ~debug_mode /\ new_capacity = _capacity
              /\ lost' = TRUE
              /\ UNCHANGED <<_data, _len, elements, vm_error>>

pop ==
    /\ Runs /\ _len > 0 /\ _len' = _len - 1
    /\ elements' = SubSeq(elements, 1, Len(elements) - 1)
    /\ UNCHANGED <<_data, debug_mode, lost, vm_error>>

\* Mutant: the loop stops one place before the last element.
remove_at_short(i) ==
    /\ Runs /\ i <= _len
    /\ _data' = [j \in 1.._capacity |->
         IF i <= j /\ j < _len - 1 THEN _data[j + 1] ELSE _data[j]]
    /\ _len' = _len - 1
    /\ elements' = SubSeq(elements, 1, i - 1) \o SubSeq(elements, i + 1, Len(elements))
    /\ UNCHANGED <<debug_mode, lost, vm_error>>

remove_at(i) ==
    /\ Runs /\ i <= _len
    /\ _data' = [j \in 1.._capacity |-> IF i <= j /\ j < _len THEN _data[j + 1] ELSE _data[j]]
    /\ _len' = _len - 1
    /\ elements' = SubSeq(elements, 1, i - 1) \o SubSeq(elements, i + 1, Len(elements))
    /\ UNCHANGED <<debug_mode, lost, vm_error>>

Next ==
    \/ \E e \in Elements : push(e) \/ append(e)
    \/ pop
    \/ \E i \in 1.._len : remove_at(i)

Spec == Init /\ [][Next]_vars

-----------------------------------------------------------------------------
(* The array holds what it accepted and did not give back, in that order,  *)
(* also after it has moved to a larger memory.                             *)
ElementsKept == SubSeq(_data, 1, _len) = elements

(* A full array takes one more element (the class "supports an extendable  *)
(* length", GrowableArray.hpp:70; "must be success.", :221).  It does not. *)
FullArrayGrows == ~lost /\ Runs
=============================================================================
