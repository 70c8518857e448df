----------------------------- MODULE LogStream -----------------------------
(***************************************************************************)
(* Log messages (plat/logger).  A thread builds a line in the LineBuffer of*)
(* a LogStream on its stack: log_info(..)(..) with one formatted text and a*)
(* line feed, log_stream(..) with as many as it likes.  The destructor     *)
(* hands the line to LogSingleFileOutput::write, which writes the header,  *)
(* a tab and the text under the lock of the stream.  It writes the text    *)
(* with print(data, data_len): the finished line is the FORMAT, formatted a*)
(* second time.                                                            *)
(*                                                                         *)
(* Every level passes: the level of the only output is the lowest, trace   *)
(* (constants.hpp:38), and nothing registers another output.  The header is*)
(* one piece.  Assertions are compiled in: one that fails is reported by   *)
(* VMError, so the branch of append that cuts a text is not reached.       *)
(***************************************************************************)
EXTENDS FileCharOStream, FiniteSets

CONSTANTS
    SmallBuf,     \* sizeof(_small_buf)
    Expansion,    \* addition_expansion
    Lengths,      \* how long formatted texts are
    MaxTexts,     \* bound: texts printed to one LogStream
    MaxLines      \* bound: LogStream objects of each thread

ASSUME LogStreamAssumption ==
    /\ SmallBuf \in Nat \ {0} /\ Expansion \in Nat \ {0} /\ OStreamDefaultBufSize > SmallBuf
    /\ Lengths \subseteq Nat /\ MaxTexts \in Nat /\ MaxLines \in Nat

VARIABLES
    line      \* each thread's LogStream: pc, _cap, _pos, and what was printed to it

(* made, texts: how many LogStreams and texts so far; once: record() made  *)
(* it; printed: the characters that print() reported as OK; percent: there *)
(* is a percent sign among them.                                           *)
NoLine(made) == [pc |-> "none", once |-> FALSE, _cap |-> SmallBuf, _pos |-> 0,
                 printed |-> 0, percent |-> FALSE, texts |-> 0, made |-> made]

(* What ::vsnprintf returns.                                               *)
NeedLens == Lengths \cup {-1}

LogInit == line = [t \in Threads |-> NoLine(0)]

At(t, pc) == line[t].pc = pc
Goto(t, pc) == line' = [line EXCEPT ![t].pc = pc]

(* A LogStream object: by record(), or as the variable of log_stream.      *)
Open(t, once) ==
    /\ At(t, "none") /\ line[t].made < MaxLines
    /\ line' = [line EXCEPT ![t] = [NoLine(@.made + 1) EXCEPT !.pc = "open", !.once = once]]
    /\ UNCHANGED streamVars

align_up(n, a) == ((n + a - 1) \div a) * a
MIN2(a, b) == IF a < b THEN a ELSE b

(* LineBuffer::try_ensure_cap                                              *)
new_cap(cap, capacity_needed) ==
    IF cap >= capacity_needed THEN cap
    ELSE MIN2(OStreamDefaultBufSize, align_up(capacity_needed + Expansion, Expansion))

(* The assertion at its end, LogStream.cpp:109.                            *)
Ensured(cap, capacity_needed) ==
    cap < capacity_needed => new_cap(cap, capacity_needed) > capacity_needed

(* The line with len more characters (LineBuffer::append).                 *)
append(l, len, percent) ==
    LET needed == l._pos + len + 1
    IN  IF Ensured(l._cap, needed)
        THEN [l EXCEPT !._cap = new_cap(l._cap, needed), !._pos = l._pos + len,
                       !.printed = l.printed + len, !.percent = l.percent \/ percent]
        ELSE [l EXCEPT !.pc = "failed"]

(* print and print_cr; record() always ends the text with a line feed.     *)
PrintText(t, need_len, cr, percent) ==
    LET l == line[t]
        len == do_vsnprintf_with_buf(need_len, cr)
    IN
    /\ At(t, "open") /\ l.texts < (IF l.once THEN 1 ELSE MaxTexts) /\ (l.once => cr)
    /\ line' = [line EXCEPT ![t] =
                    [IF len > 0 THEN append(l, len, percent) ELSE l EXCEPT !.texts = l.texts + 1]]
    /\ UNCHANGED streamVars

(* ~LogStream: flush() has nothing to do for an empty line.                *)
Close(t) ==
    /\ At(t, "open") /\ (line[t].once => line[t].texts = 1)
    /\ IF line[t]._pos = 0 THEN line' = [line EXCEPT ![t] = NoLine(@.made)] ELSE Goto(t, "lock")
    /\ UNCHANGED streamVars

(* Mutant: the lock of the stream is not taken.                            *)
LockForgotten(t) == At(t, "lock") /\ Goto(t, "head") /\ UNCHANGED streamVars

(* LogSingleFileOutput::write                                              *)
Lock(t) == At(t, "lock") /\ lock(t) /\ Goto(t, "head")

write_file_format_follow(t) ==
    /\ At(t, "head") /\ write(t, [by |-> t, what |-> "head"])
    /\ Goto(t, "tab")

Tab(t) ==
    /\ At(t, "tab") /\ write(t, [by |-> t, what |-> "tab"])
    /\ Goto(t, "text")

(* stream->print(data, data_len).  A format without a percent sign gives   *)
(* its own characters.  What a percent sign of the text makes of it and of *)
(* data_len is the C library's: the same characters, others, or an error.  *)
Text(t, need_len) ==
    LET l == line[t]
        len == do_vsnprintf_with_buf(need_len, FALSE)
    IN
    /\ At(t, "text") /\ (~l.percent => need_len = l._pos)
    /\ IF len > 0
       THEN write(t, [by |-> t, what |-> "text", length |-> len, printed |-> l.printed,
                      percent |-> l.percent])
       ELSE UNCHANGED streamVars
    /\ Goto(t, "unlock")

(* Mutant: the lock of the stream is kept.                                 *)
UnlockForgotten(t) ==
    /\ At(t, "unlock") /\ UNCHANGED streamVars
    /\ line' = [line EXCEPT ![t] = NoLine(@.made)]

(* The lock is released and the line buffer reset, for ~LineBuffer.        *)
Unlock(t) ==
    /\ At(t, "unlock") /\ unlock(t)
    /\ line' = [line EXCEPT ![t] = NoLine(@.made)]

LogPrints(t) ==
    \/ \E once \in BOOLEAN : Open(t, once)
    \/ \E need_len \in NeedLens, cr, percent \in BOOLEAN : PrintText(t, need_len, cr, percent)
LogOutputs(t) ==
    \/ Close(t) \/ Lock(t) \/ write_file_format_follow(t) \/ Tab(t) \/ Unlock(t)
    \/ \E need_len \in NeedLens \cup {line[t]._pos} : Text(t, need_len)

-----------------------------------------------------------------------------
(* The pieces of a line follow one another in the file with nothing of     *)
(* another thread between them, whoever reports an error meanwhile.  The   *)
(* text of a line without a percent sign is all that print() accepted for  *)
(* it, although the line is formatted again: what fitted the buffer of the *)
(* line fits the buffer of the second formatting.  The terminating zero of *)
(* a line buffer lies inside the buffer (LogSingleFileOutput.cpp:13-22,    *)
(* LogStream.cpp:81-110, 132-147, CharOStream.cpp:118-151).                *)
LinesWhole ==
    /\ \A i \in DOMAIN file :
          \A now \in {<<"head", "tab">>, <<"tab", "text">>} :
              file[i].what = now[2] =>
                  i > 1 /\ file[i - 1] = [by |-> file[i].by, what |-> now[1]]
    /\ \A i \in DOMAIN file :
          file[i].what = "text" /\ ~file[i].percent => file[i].length = file[i].printed
    /\ \A t \in Threads : line[t]._pos < line[t]._cap
=============================================================================
