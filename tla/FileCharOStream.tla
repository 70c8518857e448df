--------------------------- MODULE FileCharOStream ---------------------------
(***************************************************************************)
(* The stream that log lines and error reports share: stderr, since        *)
(* OutputToStderr is set (flag.hpp:30, FileCharOStream.hpp:78).            *)
(*                                                                         *)
(* What a call hands to fwrite is one piece; fwrite takes the lock of the  *)
(* FILE for itself, flockfile takes it until funlockfile.  A formatted text*)
(* is the number of its characters: need_len, what ::vsnprintf returns, a  *)
(* negative number when the text cannot be encoded.                        *)
(***************************************************************************)
EXTENDS Integers, Sequences

CONSTANTS
    Threads, Nobody,
    OStreamDefaultBufSize     \* length of the buffer a text is formatted in

ASSUME StreamAssumption == Nobody \notin Threads /\ OStreamDefaultBufSize \in Nat \ {0}

VARIABLES
    holder,   \* who holds the lock of the FILE
    file      \* the pieces written, oldest first

streamVars == <<holder, file>>

StreamInit == holder = Nobody /\ file = <<>>

lock(t)   == holder = Nobody /\ holder' = t /\ UNCHANGED file
unlock(t) == holder' = Nobody /\ UNCHANGED file

(* FileCharOStream::write: fwrite waits while another thread has the lock. *)
write(t, piece) ==
    /\ holder \in {Nobody, t}
    /\ file' = Append(file, piece)
    /\ UNCHANGED holder

(* CharOStream::do_vsnprintf: a text has to leave one place in the buffer; *)
(* that place is where the line feed goes.                                 *)
do_vsnprintf(need_len, buf_len, cr) ==
    LET feed == IF cr THEN 1 ELSE 0
    IN  IF need_len < 0           THEN [ret |-> "ERR", avail_len |-> 0]
        ELSE IF need_len > buf_len - 1
                                  THEN [ret |-> "NO_MEMORY", avail_len |-> buf_len - 1 + feed]
                                  ELSE [ret |-> "OK", avail_len |-> need_len + feed]

(* CharOStream::do_vsnprintf_with_buf: what reaches write_bytes.  No stream*)
(* of the program overrides alloc_internal_buf, which gives no memory, and *)
(* a text that does not fit, or has an error, is not written at all.       *)
do_vsnprintf_with_buf(need_len, cr) ==
    LET formatted == do_vsnprintf(need_len, OStreamDefaultBufSize, cr)
    IN  IF formatted.ret = "OK" THEN formatted.avail_len ELSE 0
=============================================================================
