------------------------- MODULE DiagnosticsProofs -------------------------
(***************************************************************************)
(* Log lines and error reports on one stream, for any number of threads,   *)
(* texts, lines, errors and any sizes of the buffers: a line is whole, and *)
(* one error is reported.                                                  *)
(*                                                                         *)
(* Fields    the fields of the lines, the report and the pieces            *)
(* Buffers   a line buffer holds what print() accepted, and has room for   *)
(*           its terminating zero                                          *)
(* Writing   a thread inside LogSingleFileOutput::write has the lock, and  *)
(*           the last piece is its own                                     *)
(* Report    the thread that reports is the one that came first            *)
(***************************************************************************)
EXTENDS Diagnostics, TLAPS

LinePcs == {"none", "open", "failed", "lock", "head", "tab", "text", "unlock"}
Lines == [pc : LinePcs, once : BOOLEAN, _cap : Nat, _pos : Nat, printed : Nat,
          percent : BOOLEAN, texts : Nat, made : Nat]

ReportPcs == {"none", "enter", "cas", "store", "copy", "report", "print", "later",
              "asleep", "again", "too_many", "abort"}

(* What a log line writes, and what the error reporter.                    *)
Heads == [by : Threads, what : {"head", "tab"}]
Texts == [by : Threads, what : {"text"}, length : Nat, printed : Nat, percent : BOOLEAN]
Notes == [by : Threads, what : {"also", "too_many", "again"}]
StepNotes == [by : Threads, what : {"step"}, step : Nat, about : (Threads \cup {Nobody}) \X BOOLEAN]
Pieces == Heads \cup Texts \cup Notes \cup StepNotes

Fields ==
    /\ line \in [Threads -> Lines]
    /\ at \in [Threads -> ReportPcs] /\ nested \in [Threads -> BOOLEAN]
    /\ _first_error_tid \in Threads \cup {Nobody}
    /\ recursive_error_count \in Nat /\ _current_step \in 0..Steps
    /\ begun \in Seq(Nat) /\ aborted \in BOOLEAN
    /\ _message \in (Threads \cup {Nobody}) \X BOOLEAN
    /\ holder \in Threads \cup {Nobody} /\ file \in Seq(Pieces)

Buffers ==
    \A t \in Threads :
       /\ line[t]._pos < line[t]._cap /\ line[t]._cap <= OStreamDefaultBufSize
       /\ line[t].printed = line[t]._pos

Last == file[Len(file)]
Writing ==
    \A t \in Threads :
       /\ line[t].pc \in {"head", "tab", "text", "unlock"} => holder = t
       /\ line[t].pc = "tab" => file # <<>> /\ Last = [by |-> t, what |-> "head"]
       /\ line[t].pc = "text" => file # <<>> /\ Last = [by |-> t, what |-> "tab"]
       /\ at[t] # "none" => line[t].pc \in {"none", "open", "failed"}

First(t) == _first_error_tid = t
Reporter(t) ==
    /\ at[t] \in {"store", "copy", "report", "print", "again", "too_many", "abort"} => First(t)
    /\ nested[t] => First(t)
    /\ at[t] = "store" => ~nested[t]
    /\ (at[t] \in {"copy", "report", "print", "again"} \/ nested[t]) => _message = <<t, FALSE>>
    /\ at[t] \in {"enter", "cas", "later"} /\ First(t) => nested[t]
    /\ at[t] = "none" /\ First(t) => aborted
    /\ at[t] = "too_many" => recursive_error_count > MaxRecursive
    /\ at[t] = "abort" => _current_step = Steps
Report == (\A t \in Threads : Reporter(t)) /\ Len(begun) = _current_step

IInv == Fields /\ Buffers /\ Writing /\ Report /\ LinesWhole /\ ReportSound

-----------------------------------------------------------------------------
(* Pieces.                                                                 *)

LEMMA Appended ==
    ASSUME Fields, NEW p \in Pieces, file' = Append(file, p)
    PROVE  /\ file' \in Seq(Pieces) /\ Len(file') = Len(file) + 1 /\ Len(file) \in Nat
           /\ DOMAIN file = 1..Len(file) /\ DOMAIN file' = 1..(Len(file) + 1)
           /\ \A i \in DOMAIN file : i \in DOMAIN file' /\ file'[i] = file[i]
           /\ file'[Len(file) + 1] = p /\ Last' = p /\ file' # <<>>
<1>1. file \in Seq(Pieces)
  BY DEF Fields
<1>2. /\ file' \in Seq(Pieces) /\ Len(file') = Len(file) + 1 /\ Len(file) \in Nat
      /\ \A i \in 1..Len(file) : file'[i] = file[i]
      /\ file'[Len(file) + 1] = p /\ file' # <<>>
  BY <1>1
<1>3. DOMAIN file = 1..Len(file) /\ DOMAIN file' = 1..Len(file')
  BY <1>1, <1>2
<1> QED
  BY <1>2, <1>3 DEF Last

(* A piece that is neither "tab" nor "text", or follows the right one, and *)
(* of a text without a percent sign everything, leaves lines whole.        *)
Follows(p) ==
    /\ p.what = "tab" => file # <<>> /\ Last = [by |-> p.by, what |-> "head"]
    /\ p.what = "text" => /\ file # <<>> /\ Last = [by |-> p.by, what |-> "tab"]
                          /\ ~p.percent => p.length = p.printed

Adjacent ==
    \A i \in DOMAIN file :
        /\ file[i].what = "tab" => i > 1 /\ file[i - 1] = [by |-> file[i].by, what |-> "head"]
        /\ file[i].what = "text" => i > 1 /\ file[i - 1] = [by |-> file[i].by, what |-> "tab"]
        /\ file[i].what = "text" /\ ~file[i].percent => file[i].length = file[i].printed

LEMMA AdjacentLines ==
    Adjacent /\ (\A t \in Threads : line[t]._pos < line[t]._cap) => LinesWhole
<1> SUFFICES ASSUME Adjacent, NEW i \in DOMAIN file,
                    NEW now \in {<<"head", "tab">>, <<"tab", "text">>}, file[i].what = now[2]
             PROVE  i > 1 /\ file[i - 1] = [by |-> file[i].by, what |-> now[1]]
  BY DEF LinesWhole, Adjacent
<1>1. CASE now = <<"head", "tab">>
  <2>1. now[1] = "head" /\ now[2] = "tab"
    BY <1>1
  <2> QED BY <2>1 DEF Adjacent
<1>2. CASE now = <<"tab", "text">>
  <2>1. now[1] = "tab" /\ now[2] = "text"
    BY <1>2
  <2> QED BY <2>1 DEF Adjacent
<1> QED
  BY <1>1, <1>2

LEMMA AdjacentLinesNext == Adjacent' /\ Buffers' => LinesWhole'
<1>1. Adjacent /\ Buffers => LinesWhole
  BY AdjacentLines DEF Buffers
<1> QED
  BY <1>1, PTL

LEMMA AdjacentStays ==
    ASSUME Fields, Adjacent, NEW p \in Pieces, Follows(p), file' = Append(file, p)
    PROVE  Adjacent'
<1>1. /\ Len(file) \in Nat /\ DOMAIN file = 1..Len(file) /\ DOMAIN file' = 1..(Len(file) + 1)
      /\ \A i \in DOMAIN file : file'[i] = file[i]
      /\ file'[Len(file) + 1] = p
  BY Appended
<1> SUFFICES ASSUME NEW i \in DOMAIN file'
             PROVE  /\ file'[i].what = "tab" =>
                          i > 1 /\ file'[i - 1] = [by |-> file'[i].by, what |-> "head"]
                    /\ file'[i].what = "text" =>
                          i > 1 /\ file'[i - 1] = [by |-> file'[i].by, what |-> "tab"]
                    /\ file'[i].what = "text" /\ ~file'[i].percent => file'[i].length = file'[i].printed
  BY DEF Adjacent
<1>2. CASE i \in DOMAIN file
  <2>1. file'[i] = file[i] /\ (i > 1 => i - 1 \in DOMAIN file /\ file'[i - 1] = file[i - 1])
    BY <1>1, <1>2
  <2> QED
    BY <1>2, <2>1 DEF Adjacent
<1>3. CASE i = Len(file) + 1
  <2>1. file'[i] = p /\ i - 1 = Len(file)
    BY <1>1, <1>3
  <2>2. ASSUME file # <<>> PROVE i > 1 /\ file'[i - 1] = Last
    <3>1. Len(file) > 0
      BY <1>1, <2>2 DEF Fields
    <3> QED
      BY <1>1, <2>1, <3>1 DEF Last
  <2> QED
    BY <2>1, <2>2 DEF Follows
<1> QED
  BY <1>1, <1>2, <1>3

-----------------------------------------------------------------------------
(* The line buffer.                                                        *)

LEMMA Formatted ==
    ASSUME NEW need_len \in Nat \cup {-1}, NEW cr \in BOOLEAN
    PROVE  /\ do_vsnprintf_with_buf(need_len, cr) \in Nat
           /\ ~cr /\ need_len \in Nat /\ need_len < OStreamDefaultBufSize =>
                 do_vsnprintf_with_buf(need_len, cr) = need_len
BY StreamAssumption DEF do_vsnprintf_with_buf, do_vsnprintf

LEMMA NewCap ==
    ASSUME NEW cap \in Nat, NEW needed \in Nat, cap <= OStreamDefaultBufSize, Ensured(cap, needed)
    PROVE  /\ new_cap(cap, needed) \in Nat /\ new_cap(cap, needed) <= OStreamDefaultBufSize
           /\ needed <= new_cap(cap, needed)
<1> DEFINE new == align_up(needed + Expansion, Expansion)
<1>1. new \in Int /\ OStreamDefaultBufSize \in Nat
  BY StreamAssumption, LogStreamAssumption, SMT DEF align_up
<1>2. new_cap(cap, needed) \in {cap, new, OStreamDefaultBufSize}
      /\ (cap < needed => new_cap(cap, needed) <= OStreamDefaultBufSize
                          /\ new_cap(cap, needed) > needed)
      /\ (cap >= needed => new_cap(cap, needed) = cap)
  <2> HIDE DEF new
  <2> QED BY <1>1, SMT DEF new_cap, MIN2, Ensured, new
<1> HIDE DEF new
<1> QED
  BY <1>1, <1>2, SMT

(* What one text makes of a line.                                          *)
BufferOK(l) == l._pos < l._cap /\ l._cap <= OStreamDefaultBufSize /\ l.printed = l._pos

LEMMA AppendKeeps ==
    ASSUME NEW l \in Lines, l.pc = "open", BufferOK(l), NEW len \in Nat, NEW percent \in BOOLEAN
    PROVE  /\ append(l, len, percent) \in Lines /\ BufferOK(append(l, len, percent))
           /\ append(l, len, percent).pc \in {"open", "failed"}
<1> DEFINE needed == l._pos + len + 1
<1>1. /\ l._pos \in Nat /\ l._cap \in Nat /\ l.printed \in Nat
  BY DEF Lines
<1>2. needed \in Nat
  BY <1>1
<1>3. CASE Ensured(l._cap, needed)
  <2>1. /\ new_cap(l._cap, needed) \in Nat /\ new_cap(l._cap, needed) <= OStreamDefaultBufSize
        /\ needed <= new_cap(l._cap, needed)
    BY <1>1, <1>2, <1>3, NewCap DEF BufferOK
  <2> DEFINE c == new_cap(l._cap, needed)
             m == [l EXCEPT !._cap = c, !._pos = l._pos + len, !.printed = l.printed + len,
                            !.percent = l.percent \/ percent]
  <2>2. append(l, len, percent) = m
    BY <1>3 DEF append
  <2> HIDE DEF c
  <2>3. /\ m \in Lines /\ m.pc = l.pc /\ m._cap = c /\ m._pos = l._pos + len
        /\ m.printed = l.printed + len
    <3> DEFINE either == l.percent \/ percent
    <3>1. c \in Nat /\ l._pos + len \in Nat /\ l.printed + len \in Nat
      BY <1>1, <2>1 DEF c
    <3>2. either \in BOOLEAN
      OBVIOUS
    <3> HIDE DEF either
    <3>3. m = [l EXCEPT !._cap = c, !._pos = l._pos + len, !.printed = l.printed + len,
                        !.percent = either]
      BY DEF either
    <3> HIDE DEF m
    <3> QED BY <3>1, <3>2, <3>3 DEF Lines
  <2>4. l._pos + len < c /\ c <= OStreamDefaultBufSize
    BY <1>1, <2>1 DEF c
  <2> HIDE DEF m
  <2> QED
    BY <2>2, <2>3, <2>4 DEF BufferOK
<1>4. CASE ~Ensured(l._cap, needed)
  <2> DEFINE m == [l EXCEPT !.pc = "failed"]
  <2>1. append(l, len, percent) = m
    BY <1>4 DEF append
  <2>2. m \in Lines /\ m.pc = "failed" /\ m._cap = l._cap /\ m._pos = l._pos /\ m.printed = l.printed
    BY DEF Lines, LinePcs
  <2> HIDE DEF m
  <2> QED
    BY <2>1, <2>2 DEF BufferOK
<1> QED
  BY <1>3, <1>4

-----------------------------------------------------------------------------
(* A step of the log: thread t, which is not in report_and_die, changes its*)
(* line to m.                                                              *)
LogStep(t, m) ==
    /\ at[t] = "none" /\ UNCHANGED errVars
    /\ line' = [line EXCEPT ![t] = m] /\ m \in Lines /\ BufferOK(m)

(* What it does to the stream.  A text that the second formatting refuses  *)
(* is not written.                                                         *)
Prints(t, m) ==
    /\ UNCHANGED streamVars /\ line[t].pc \in {"none", "open"}
    /\ m.pc \in {"none", "open", "failed", "lock"}
Locks(t, m)   == lock(t) /\ m.pc = "head"
Drops(t, m)   == UNCHANGED streamVars /\ line[t].pc = "text" /\ m.pc = "unlock"
Unlocks(t, m) == unlock(t) /\ line[t].pc = "unlock" /\ m.pc = "none"
Writes(t, m)  ==
    \E p \in Heads \cup Texts :
       /\ p.by = t /\ Follows(p) /\ write(t, p)
       /\ \/ line[t].pc = "head" /\ m.pc = "tab" /\ p = [by |-> t, what |-> "head"]
          \/ line[t].pc = "tab" /\ m.pc = "text" /\ p = [by |-> t, what |-> "tab"]
          \/ line[t].pc = "text" /\ m.pc = "unlock"

LEMMA LineFacts ==
    ASSUME Fields, NEW t \in Threads
    PROVE  line[t] \in Lines /\ line[t].pc \in LinePcs /\ line[t].made \in Nat
BY DEF Fields, Lines

LEMMA ReportSoundStays ==
    ASSUME Fields, ReportSound, NEW p \in Pieces, p.what # "step", file' = Append(file, p),
           UNCHANGED reportVars
    PROVE  ReportSound'
<1>1. /\ DOMAIN file = 1..Len(file) /\ DOMAIN file' = 1..(Len(file) + 1)
      /\ \A i \in DOMAIN file : file'[i] = file[i]
      /\ file'[Len(file) + 1] = p /\ Len(file) \in Nat
  BY Appended
<1>2. ASSUME NEW i \in DOMAIN file', file'[i].what = "step"
      PROVE  i \in DOMAIN file /\ file'[i] = file[i]
  BY <1>1, <1>2
<1> QED
  BY <1>2 DEF ReportSound, reportVars

LEMMA LogStepKeeps ==
    ASSUME IInv, NEW t \in Threads, NEW m, LogStep(t, m),
           Prints(t, m) \/ Locks(t, m) \/ Unlocks(t, m) \/ Writes(t, m) \/ Drops(t, m)
    PROVE  IInv'
<1>1. /\ line'[t] = m /\ \A u \in Threads : u # t => line'[u] = line[u]
      /\ line' \in [Threads -> Lines]
  BY DEF LogStep, IInv, Fields
<1>2. UNCHANGED errVars /\ UNCHANGED reportVars
      /\ UNCHANGED <<at, nested, _first_error_tid, _message, recursive_error_count, _current_step,
                     begun, aborted>>
  BY DEF LogStep, errVars, reportVars
<1>3. /\ (file' = file \/ \E p \in Heads \cup Texts : Follows(p) /\ file' = Append(file, p))
      /\ holder' \in {holder, t, Nobody}
  BY DEF Prints, Locks, Unlocks, Writes, Drops, lock, unlock, write, streamVars
<1>4. Fields'
  <2>1. file' \in Seq(Pieces)
    BY <1>3, Appended DEF Pieces, IInv, Fields
  <2> QED
    BY <1>1, <1>2, <1>3, <2>1 DEF IInv, Fields, errVars, reportVars
<1>5. Buffers'
  BY <1>1 DEF IInv, Buffers, LogStep, BufferOK
<1>6. Report'
  BY <1>2 DEF IInv, Report, Reporter, First
<1>7. Adjacent' /\ ReportSound'
  <2>1. Adjacent
    BY DEF IInv, LinesWhole, Adjacent
  <2>2. CASE file' = file
    <3>1. Adjacent'
      BY <2>1, <2>2 DEF Adjacent
    <3>2. ReportSound'
      BY <1>2, <2>2 DEF IInv, ReportSound
    <3> QED
      BY <3>1, <3>2
  <2>3. CASE \E p \in Heads \cup Texts : Follows(p) /\ file' = Append(file, p)
    <3>1. PICK p \in Heads \cup Texts : Follows(p) /\ file' = Append(file, p)
      BY <2>3
    <3>2. p \in Pieces /\ p.what # "step"
      BY <3>1 DEF Pieces, Heads, Texts
    <3> QED
      BY <1>2, <2>1, <3>1, <3>2, AdjacentStays, ReportSoundStays DEF IInv
  <2> QED
    BY <1>3, <2>2, <2>3
<1>8. LinesWhole'
  BY <1>5, <1>7, AdjacentLinesNext
<1>9. Writing'
  <2> DEFINE Inside(u) == line[u].pc \in {"head", "tab", "text", "unlock"}
  <2>1. \A u \in Threads : Inside(u) => holder = u
    BY DEF IInv, Writing
  <2>2. at' = at /\ at[t] = "none" /\ Nobody \notin Threads
    BY <1>2, StreamAssumption DEF LogStep, errVars
  <2>3. ASSUME NEW u \in Threads, u # t, Inside(u)
        PROVE  holder' = holder /\ file' = file
    <3>1. holder = u /\ holder # Nobody /\ holder # t
      BY <2>1, <2>2, <2>3
    <3> QED
      BY <2>1, <3>1 DEF Prints, Locks, Unlocks, Writes, Drops, lock, unlock, write, streamVars
  <2>4. ASSUME NEW u \in Threads, u # t
        PROVE  /\ line'[u].pc \in {"head", "tab", "text", "unlock"} => holder' = u
               /\ line'[u].pc = "tab" => file' # <<>> /\ Last' = [by |-> u, what |-> "head"]
               /\ line'[u].pc = "text" => file' # <<>> /\ Last' = [by |-> u, what |-> "tab"]
               /\ at'[u] # "none" => line'[u].pc \in {"none", "open", "failed"}
    <3>1. line'[u] = line[u]
      BY <1>1, <2>4
    <3>2. CASE ~Inside(u)
      BY <2>2, <3>1, <3>2 DEF IInv, Writing
    <3>3. CASE Inside(u)
      <4>1. holder' = holder /\ file' = file /\ Last' = Last
        BY <2>3, <2>4, <3>3 DEF Last
      <4> QED
        BY <2>2, <3>1, <4>1 DEF IInv, Writing
    <3> QED
      BY <3>2, <3>3
  <2>5. /\ line'[t].pc \in {"head", "tab", "text", "unlock"} => holder' = t
        /\ line'[t].pc = "tab" => file' # <<>> /\ Last' = [by |-> t, what |-> "head"]
        /\ line'[t].pc = "text" => file' # <<>> /\ Last' = [by |-> t, what |-> "tab"]
        /\ at'[t] # "none" => line'[t].pc \in {"none", "open", "failed"}
    <3>1. CASE Prints(t, m) \/ Locks(t, m) \/ Unlocks(t, m)
      BY <1>1, <2>2, <3>1 DEF Prints, Locks, Unlocks, lock, unlock
    <3>2. CASE Drops(t, m)
      BY <1>1, <2>1, <2>2, <3>2 DEF Drops, streamVars
    <3>3. CASE Writes(t, m)
      <4>1. PICK p \in Heads \cup Texts :
               /\ p.by = t /\ Follows(p) /\ write(t, p)
               /\ \/ line[t].pc = "head" /\ m.pc = "tab" /\ p = [by |-> t, what |-> "head"]
                  \/ line[t].pc = "tab" /\ m.pc = "text" /\ p = [by |-> t, what |-> "tab"]
                  \/ line[t].pc = "text" /\ m.pc = "unlock"
        BY <3>3 DEF Writes
      <4>2. file' = Append(file, p) /\ holder' = holder /\ holder = t
        BY <2>1, <4>1 DEF write
      <4>3. p \in Pieces
        BY DEF Pieces
      <4>4. Last' = p /\ file' # <<>>
        BY <4>2, <4>3, Appended DEF IInv
      <4> QED
        BY <1>1, <2>2, <4>1, <4>2, <4>4
    <3> QED
      BY <3>1, <3>2, <3>3
  <2> QED
    BY <2>4, <2>5 DEF Writing
<1> QED
  BY <1>4, <1>5, <1>6, <1>7, <1>8, <1>9 DEF IInv

-----------------------------------------------------------------------------
(* Every step of a line is one of these.                                   *)

LEMMA EmptyLine ==
    ASSUME NEW n \in Nat
    PROVE  /\ NoLine(n) \in Lines /\ BufferOK(NoLine(n)) /\ NoLine(n).pc = "none"
           /\ NoLine(n).made = n
BY StreamAssumption, LogStreamAssumption DEF NoLine, Lines, LinePcs, BufferOK

LEMMA AtLine ==
    ASSUME IInv, NEW t \in Threads, NEW pc \in LinePcs
    PROVE  /\ [line[t] EXCEPT !.pc = pc] \in Lines
           /\ [line[t] EXCEPT !.pc = pc].pc = pc /\ BufferOK([line[t] EXCEPT !.pc = pc])
<1>1. line[t] \in Lines /\ BufferOK(line[t])
  BY LineFacts DEF IInv, Buffers, BufferOK
<1> QED
  BY <1>1 DEF Lines, BufferOK

LEMMA Moved ==
    ASSUME IInv, NEW t \in Threads, at[t] = "none", UNCHANGED errVars, NEW pc \in LinePcs, Goto(t, pc)
    PROVE  LogStep(t, [line[t] EXCEPT !.pc = pc])
<1>1. line' = [line EXCEPT ![t] = [line[t] EXCEPT !.pc = pc]]
  BY DEF Goto
<1> QED
  BY <1>1, AtLine DEF LogStep

LEMMA LogsKeep ==
    ASSUME IInv, NEW t \in Threads, Logs(t)
    PROVE  IInv'
<1>1. at[t] = "none" /\ UNCHANGED errVars /\ line[t] \in Lines /\ line[t].made \in Nat
  BY LineFacts DEF Logs, Runs, IInv
<1>2. CASE \E once \in BOOLEAN : Open(t, once)
  <2>1. PICK once \in BOOLEAN : Open(t, once)
    BY <1>2
  <2> DEFINE l == NoLine(line[t].made + 1)
             m == [l EXCEPT !.pc = "open", !.once = once]
  <2>2. l \in Lines /\ BufferOK(l)
    BY <1>1, EmptyLine
  <2> HIDE DEF l
  <2>3. m \in Lines /\ BufferOK(m) /\ m.pc = "open"
    BY <2>2 DEF Lines, LinePcs, BufferOK
  <2> HIDE DEF m
  <2>4. line' = [line EXCEPT ![t] = m] /\ UNCHANGED streamVars /\ line[t].pc = "none"
    BY <2>1 DEF Open, At, m, l
  <2>5. LogStep(t, m) /\ Prints(t, m)
    BY <1>1, <2>3, <2>4 DEF LogStep, Prints
  <2> QED
    BY <2>5, LogStepKeeps
<1>3. CASE \E n \in NeedLens, cr, percent \in BOOLEAN : PrintText(t, n, cr, percent)
  <2>1. PICK n \in NeedLens : \E cr, percent \in BOOLEAN : PrintText(t, n, cr, percent)
    BY <1>3
  <2>2. PICK cr \in BOOLEAN, percent \in BOOLEAN : PrintText(t, n, cr, percent)
    BY <2>1
  <2> DEFINE len == do_vsnprintf_with_buf(n, cr)
             l == IF len > 0 THEN append(line[t], len, percent) ELSE line[t]
             m == [l EXCEPT !.texts = line[t].texts + 1]
  <2>3. len \in Nat
    <3>1. n \in Nat \cup {-1}
      BY LogStreamAssumption DEF NeedLens
    <3> QED BY <3>1, Formatted
  <2>4. line[t].pc = "open" /\ BufferOK(line[t]) /\ line[t].texts \in Nat
    BY <1>1, <2>2 DEF PrintText, At, IInv, Buffers, BufferOK, Lines
  <2>5. l \in Lines /\ BufferOK(l) /\ l.pc \in {"open", "failed"}
    <3> HIDE DEF len
    <3> QED BY <1>1, <2>3, <2>4, AppendKeeps
  <2>6. line' = [line EXCEPT ![t] = m] /\ UNCHANGED streamVars
    BY <2>2 DEF PrintText
  <2> HIDE DEF l
  <2>7. m \in Lines /\ BufferOK(m) /\ m.pc = l.pc
    BY <2>4, <2>5 DEF Lines, BufferOK
  <2> HIDE DEF m
  <2>8. LogStep(t, m) /\ Prints(t, m)
    BY <1>1, <2>4, <2>5, <2>6, <2>7 DEF LogStep, Prints
  <2> QED
    BY <2>8, LogStepKeeps
<1> QED
  BY <1>2, <1>3 DEF Logs, LogPrints

LEMMA OutputsKeep ==
    ASSUME IInv, NEW t \in Threads, Outputs(t)
    PROVE  IInv'
<1>1. at[t] = "none" /\ UNCHANGED errVars /\ line[t] \in Lines /\ line[t].made \in Nat
      /\ line[t]._pos \in Nat /\ line[t].printed \in Nat /\ line[t].percent \in BOOLEAN
  BY LineFacts DEF Outputs, Runs, IInv, Lines
<1> DEFINE m(pc) == [line[t] EXCEPT !.pc = pc]
           none == NoLine(line[t].made)
<1>2. \A pc \in LinePcs : m(pc).pc = pc
  BY AtLine
<1>3. none.pc = "none" /\ none \in Lines /\ BufferOK(none)
  BY <1>1, EmptyLine
<1>4. ASSUME NEW pc \in LinePcs, Goto(t, pc) PROVE LogStep(t, m(pc))
  BY <1>1, <1>4, Moved
<1>5. ASSUME line' = [line EXCEPT ![t] = none] PROVE LogStep(t, none)
  BY <1>1, <1>3, <1>5 DEF LogStep
<1> HIDE DEF m, none
<1>6. CASE Close(t)
  <2>1. line[t].pc = "open" /\ UNCHANGED streamVars
        /\ (line' = [line EXCEPT ![t] = none] \/ Goto(t, "lock"))
    BY <1>6 DEF Close, At, none
  <2>2. CASE line' = [line EXCEPT ![t] = none]
    <3>1. Prints(t, none)
      BY <1>3, <2>1 DEF Prints
    <3> QED BY <1>5, <2>2, <3>1, LogStepKeeps
  <2>3. CASE Goto(t, "lock")
    <3>1. "lock" \in LinePcs /\ Prints(t, m("lock"))
      BY <1>2, <2>1 DEF Prints, LinePcs
    <3> QED BY <1>4, <2>3, <3>1, LogStepKeeps
  <2> QED BY <2>1, <2>2, <2>3
<1>7. CASE Lock(t)
  <2>1. "head" \in LinePcs /\ Goto(t, "head") /\ Locks(t, m("head"))
    BY <1>2, <1>7 DEF Lock, Locks, LinePcs
  <2> QED BY <1>4, <2>1, LogStepKeeps
<1>8. CASE write_file_format_follow(t)
  <2> DEFINE p == [by |-> t, what |-> "head"]
  <2>1. "tab" \in LinePcs /\ Goto(t, "tab") /\ line[t].pc = "head" /\ write(t, p)
    BY <1>8 DEF write_file_format_follow, At, LinePcs
  <2>2. p \in Heads /\ p.by = t /\ Follows(p)
    BY DEF Heads, Follows
  <2>3. Writes(t, m("tab"))
    BY <1>2, <2>1, <2>2 DEF Writes
  <2> QED BY <1>4, <2>1, <2>3, LogStepKeeps
<1>9. CASE Tab(t)
  <2> DEFINE p == [by |-> t, what |-> "tab"]
  <2>1. "text" \in LinePcs /\ Goto(t, "text") /\ line[t].pc = "tab" /\ write(t, p)
    BY <1>9 DEF Tab, At, LinePcs
  <2>2. p \in Heads /\ p.by = t /\ Follows(p)
    BY <2>1 DEF Heads, Follows, IInv, Writing
  <2>3. Writes(t, m("text"))
    BY <1>2, <2>1, <2>2 DEF Writes
  <2> QED BY <1>4, <2>1, <2>3, LogStepKeeps
<1>10. CASE \E need_len \in NeedLens \cup {line[t]._pos} : Text(t, need_len)
  <2>1. PICK need_len \in NeedLens \cup {line[t]._pos} : Text(t, need_len)
    BY <1>10
  <2> DEFINE len == do_vsnprintf_with_buf(need_len, FALSE)
             p == [by |-> t, what |-> "text", length |-> len, printed |-> line[t].printed,
                   percent |-> line[t].percent]
  <2>2. /\ "unlock" \in LinePcs /\ Goto(t, "unlock") /\ line[t].pc = "text"
        /\ ~line[t].percent => need_len = line[t]._pos
        /\ IF len > 0 THEN write(t, p) ELSE UNCHANGED streamVars
    BY <2>1 DEF Text, At, LinePcs
  <2>3. len \in Nat /\ (~line[t].percent => len = line[t].printed)
    <3>1. line[t]._pos < OStreamDefaultBufSize /\ line[t]._pos = line[t].printed
      BY <1>1, StreamAssumption DEF IInv, Buffers, Lines
    <3>2. need_len \in Nat \cup {-1}
      BY <1>1, LogStreamAssumption DEF NeedLens
    <3> QED BY <1>1, <2>2, <3>1, <3>2, Formatted
  <2> HIDE DEF len
  <2>4. p \in Texts /\ p.by = t /\ Follows(p)
    BY <1>1, <2>2, <2>3 DEF Texts, Follows, IInv, Writing
  <2> HIDE DEF p
  <2>5. CASE write(t, p)
    <3>1. Writes(t, m("unlock"))
      BY <1>2, <2>2, <2>4, <2>5 DEF Writes
    <3> QED BY <1>4, <2>2, <3>1, LogStepKeeps
  <2>6. CASE UNCHANGED streamVars
    <3>1. Drops(t, m("unlock"))
      BY <1>2, <2>2, <2>6 DEF Drops
    <3> QED BY <1>4, <2>2, <3>1, LogStepKeeps
  <2> QED BY <2>2, <2>5, <2>6
<1>11. CASE Unlock(t)
  <2>1. line' = [line EXCEPT ![t] = none] /\ Unlocks(t, none)
    BY <1>3, <1>11 DEF Unlock, Unlocks, At, none
  <2> QED BY <1>5, <2>1, LogStepKeeps
<1> QED
  BY <1>6, <1>7, <1>8, <1>9, <1>10, <1>11 DEF Outputs, LogOutputs

-----------------------------------------------------------------------------
(* A step of thread t in report_and_die, or the one that takes it there.   *)
Outside(t) == line[t].pc \in {"none", "open", "failed"}

LEMMA LinesKept ==
    ASSUME IInv, NEW t \in Threads, UNCHANGED line, Outside(t),
           \A u \in Threads : u # t => at'[u] = at[u],
           UNCHANGED streamVars \/ \E p \in Notes \cup StepNotes : p.by = t /\ write(t, p)
    PROVE  Buffers' /\ Writing' /\ LinesWhole' /\ file' \in Seq(Pieces) /\ holder' = holder
<1>1. Buffers'
  BY DEF IInv, Buffers
<1>2. Adjacent
  BY DEF IInv, LinesWhole, Adjacent
<1>3. CASE UNCHANGED streamVars
  <2>1. UNCHANGED <<holder, file, Last>>
    BY <1>3 DEF streamVars, Last
  <2>2. Writing'
    BY <2>1 DEF IInv, Writing, Outside
  <2>3. Adjacent'
    BY <1>2, <2>1 DEF Adjacent
  <2> QED
    BY <1>1, <2>1, <2>2, <2>3, AdjacentLinesNext DEF IInv, Fields
<1>4. CASE \E p \in Notes \cup StepNotes : p.by = t /\ write(t, p)
  <2>1. PICK p \in Notes \cup StepNotes : p.by = t /\ write(t, p)
    BY <1>4
  <2>2. p \in Pieces /\ Follows(p) /\ file' = Append(file, p) /\ holder' = holder
        /\ holder \in {Nobody, t}
    BY <2>1 DEF Pieces, Notes, StepNotes, Follows, write
  <2>3. Adjacent'
    BY <1>2, <2>2, AdjacentStays DEF IInv
  <2>4. \A u \in Threads : line[u].pc \notin {"head", "tab", "text", "unlock"}
    BY <2>2, StreamAssumption DEF IInv, Writing, Outside
  <2>5. Writing'
    BY <2>4 DEF IInv, Writing, Outside
  <2> QED
    BY <1>1, <2>2, <2>3, <2>5, Appended, AdjacentLinesNext DEF IInv
<1> QED
  BY <1>3, <1>4

(* Who reports, after a step of thread t.                                  *)
LEMMA ReportFields ==
    ASSUME IInv, NEW t \in Threads, NEW to, NEW from, Moves(t, from, to), to \in ReportPcs
    PROVE  /\ at[t] = from /\ at' \in [Threads -> ReportPcs] /\ at'[t] = to
           /\ \A u \in Threads : u # t => at'[u] = at[u]
BY DEF Moves, IInv, Fields

LEMMA OthersReport ==
    ASSUME IInv, NEW t \in Threads, \A u \in Threads \ {t} : at'[u] = at[u] /\ nested'[u] = nested[u],
           \A u \in Threads \ {t} :
              /\ First(u)' <=> First(u)
              /\ First(u) => UNCHANGED <<_message, _current_step, recursive_error_count>>,
           aborted => aborted',
           Reporter(t)', Len(begun') = _current_step'
    PROVE  Report'
<1>1. ASSUME NEW u \in Threads \ {t}
      PROVE  Reporter(u)'
  <2>1. /\ Reporter(u) /\ at'[u] = at[u] /\ nested'[u] = nested[u] /\ (aborted => aborted')
        /\ First(u)' <=> First(u)
    BY DEF IInv, Report
  <2>2. CASE First(u)
    <3>1. UNCHANGED <<_message, _current_step, recursive_error_count>>
      BY <2>2
    <3> QED
      BY <2>1, <2>2, <3>1 DEF Reporter
  <2>3. CASE ~First(u)
    BY <2>1, <2>3 DEF Reporter
  <2> QED
    BY <2>2, <2>3
<1> QED
  BY <1>1 DEF Report

LEMMA AssertsKeep ==
    ASSUME IInv, NEW t \in Threads, Asserts(t)
    PROVE  IInv'
<1>1. Moves(t, "none", "enter") /\ UNCHANGED <<nested, reportVars, streamVars, line>> /\ Outside(t)
  BY DEF Asserts, Raise, Outside
<1>2. /\ at[t] = "none" /\ at' \in [Threads -> ReportPcs] /\ at'[t] = "enter"
      /\ \A u \in Threads : u # t => at'[u] = at[u]
  BY <1>1, ReportFields DEF ReportPcs
<1>3. Buffers' /\ Writing' /\ LinesWhole' /\ file' = file /\ holder' = holder
  BY <1>1, <1>2, LinesKept DEF streamVars
<1>4. Fields'
  BY <1>1, <1>2, <1>3 DEF IInv, Fields, reportVars
<1>5. ReportSound'
  BY <1>1, <1>3 DEF IInv, ReportSound, reportVars
<1>6. Report'
  <2>1. ~aborted /\ UNCHANGED <<_first_error_tid, _message, recursive_error_count, _current_step, begun,
                                aborted>>
    BY <1>1 DEF Asserts, Runs, reportVars
  <2>2. Reporter(t)'
    BY <1>1, <1>2, <2>1 DEF IInv, Report, Reporter, First
  <2>3. Len(begun') = _current_step'
    BY <2>1 DEF IInv, Report
  <2> QED
    BY <1>1, <1>2, <2>1, <2>2, <2>3, OthersReport DEF First
<1> QED
  BY <1>3, <1>4, <1>5, <1>6 DEF IInv

(* A step of the report that writes nothing.                               *)
LEMMA QuietKeeps ==
    ASSUME IInv, NEW t \in Threads, Reporting(t) \/ Failing(t),
           Enter(t) \/ Cas(t) \/ Store(t) \/ CopyDetail(t) \/ Recursive(t) \/ Step(t)
             \/ Flush(t) \/ Abort(t) \/ Fail(t)
    PROVE  IInv'
<1>1. /\ UNCHANGED <<streamVars, line, file, holder>> /\ ~aborted
      /\ at[t] # "none" /\ Outside(t) /\ Nobody \notin Threads
  <2>1. UNCHANGED <<streamVars, line>> /\ ~aborted /\ at[t] # "none"
    BY DEF Enter, Cas, Store, CopyDetail, Recursive, Step, Flush, Abort, Fail, Reporting, Failing,
       Moves
  <2> QED
    BY <2>1, StreamAssumption DEF IInv, Writing, Outside, streamVars
<1>2. /\ at' \in [Threads -> ReportPcs] /\ nested' \in [Threads -> BOOLEAN]
      /\ \A u \in Threads : u # t => at'[u] = at[u] /\ nested'[u] = nested[u]
  <2>1. nested \in [Threads -> BOOLEAN]
    BY DEF IInv, Fields
  <2>2. CASE Fail(t)
    BY <2>1, <2>2 DEF Fail, IInv, Fields, ReportPcs
  <2>3. CASE ~Fail(t)
    <3>1. UNCHANGED nested
      BY <2>3 DEF Enter, Cas, Store, CopyDetail, Recursive, Step, Flush, Abort
    <3>2. \E from, to \in ReportPcs : Moves(t, from, to)
      BY <2>3 DEF Enter, Cas, Store, CopyDetail, Recursive, Step, Flush, Abort, ReportPcs
    <3>3. PICK from, to \in ReportPcs : Moves(t, from, to)
      BY <3>2
    <3> QED
      BY <2>1, <3>1, <3>3, ReportFields
  <2> QED
    BY <2>2, <2>3
<1>3. Buffers' /\ Writing' /\ LinesWhole' /\ file' = file /\ holder' = holder
  BY <1>1, <1>2, LinesKept
<1>4. CASE Enter(t) \/ CopyDetail(t) \/ Flush(t)
  <2>1. UNCHANGED <<nested, _first_error_tid, _message, recursive_error_count, _current_step, begun,
                    aborted, reportVars>>
    BY <1>4 DEF Enter, CopyDetail, Flush, reportVars
  <2>2. \/ at[t] = "enter" /\ at'[t] \in {"cas", "later"}
        \/ at[t] = "copy" /\ at'[t] = "report"
        \/ at[t] = "report" /\ at'[t] = "abort" /\ _current_step = Steps
    <3>1. CASE Enter(t)
      BY <3>1 DEF Enter, Moves, IInv, Fields
    <3>2. CASE CopyDetail(t)
      BY <3>2 DEF CopyDetail, Moves, IInv, Fields
    <3>3. CASE Flush(t)
      BY <3>3 DEF Flush, Moves, IInv, Fields
    <3> QED BY <1>4, <3>1, <3>2, <3>3
  <2>3. Fields' /\ ReportSound'
    BY <1>1, <1>2, <2>1 DEF IInv, Fields, ReportSound
  <2>4. Reporter(t)' /\ Len(begun') = _current_step'
    BY <1>2, <2>1, <2>2 DEF IInv, Report, Reporter, First
  <2>5. Report'
    BY <1>2, <2>1, <2>2, <2>4, OthersReport DEF First
  <2> QED BY <1>3, <2>3, <2>5 DEF IInv
<1>5. CASE Cas(t)
  <2>1. UNCHANGED <<nested, _message, recursive_error_count, _current_step, begun, aborted>>
    BY <1>5 DEF Cas
  <2>2. /\ at[t] = "cas"
        /\ \/ /\ _first_error_tid = Nobody /\ _first_error_tid' = t /\ at'[t] = "store"
           \/ /\ _first_error_tid # Nobody /\ UNCHANGED _first_error_tid /\ at'[t] = "later"
    BY <1>5 DEF Cas, Moves, IInv, Fields
  <2>3. \A i \in DOMAIN file : file[i].what = "step" => _first_error_tid # Nobody
    <3> SUFFICES ASSUME NEW i \in DOMAIN file, file[i].what = "step" PROVE _first_error_tid # Nobody
      OBVIOUS
    <3>1. file[i] \in Pieces
      BY DEF IInv, Fields
    <3>2. file[i].by \in Threads
      BY <3>1 DEF Pieces, Heads, Texts, Notes, StepNotes
    <3> QED
      BY <1>1, <3>2 DEF IInv, ReportSound
  <2>4. Fields' /\ ReportSound'
    BY <1>1, <1>2, <2>1, <2>2, <2>3 DEF IInv, Fields, ReportSound
  <2>5. Reporter(t)' /\ Len(begun') = _current_step'
    BY <1>1, <1>2, <2>1, <2>2 DEF IInv, Report, Reporter, First
  <2>6. Report'
    BY <1>1, <1>2, <2>1, <2>2, <2>5, OthersReport DEF First
  <2> QED BY <1>3, <2>4, <2>6 DEF IInv
<1>6. CASE Store(t)
  <2>1. UNCHANGED <<nested, _first_error_tid, recursive_error_count, _current_step, begun, aborted>>
    BY <1>6 DEF Store
  <2>2. /\ at[t] = "store" /\ at'[t] = "copy" /\ _message' = <<t, nested[t]>>
        /\ nested[t] = FALSE /\ First(t)
    BY <1>6 DEF Store, Moves, IInv, Fields, Report, Reporter
  <2>3. \A i \in DOMAIN file : file[i].what = "step" =>
           file[i].by = _first_error_tid /\ file[i].about = <<_first_error_tid, FALSE>>
    BY DEF IInv, ReportSound
  <2>4. Fields' /\ ReportSound'
    BY <1>1, <1>2, <2>1, <2>2, <2>3 DEF IInv, Fields, ReportSound
  <2>5. Reporter(t)' /\ Len(begun') = _current_step'
    BY <1>1, <1>2, <2>1, <2>2 DEF IInv, Report, Reporter, First
  <2>6. Report'
    BY <1>1, <1>2, <2>1, <2>2, <2>5, OthersReport DEF First
  <2> QED BY <1>3, <2>4, <2>6 DEF IInv
<1>7. CASE Recursive(t)
  <2>1. UNCHANGED <<nested, _first_error_tid, _message, _current_step, begun, aborted>>
    BY <1>7 DEF Recursive
  <2>2. /\ at[t] = "later" /\ First(t) /\ recursive_error_count' = recursive_error_count + 1
        /\ \/ at'[t] = "too_many" /\ recursive_error_count > MaxRecursive
           \/ at'[t] = "again"
    BY <1>7 DEF Recursive, Moves, IInv, Fields, First
  <2>3. recursive_error_count' \in Nat /\ MaxRecursive \in Nat /\ recursive_error_count \in Nat
    <3>1. recursive_error_count \in Nat
      BY DEF IInv, Fields
    <3> QED
      BY <2>2, <3>1, VMErrorAssumption
  <2>4. Fields' /\ ReportSound'
    BY <1>1, <1>2, <2>1, <2>3 DEF IInv, Fields, ReportSound
  <2>5. Reporter(t)' /\ Len(begun') = _current_step'
    <3>1. recursive_error_count > MaxRecursive => recursive_error_count' > MaxRecursive
      BY <2>2, <2>3
    <3>2. nested[t] /\ _message = <<t, FALSE>> /\ Len(begun) = _current_step
      BY <2>2 DEF IInv, Report, Reporter
    <3> QED
      BY <1>1, <1>2, <2>1, <2>2, <3>1, <3>2 DEF Reporter, First
  <2>6. Report'
    BY <1>1, <1>2, <2>1, <2>2, <2>5, OthersReport DEF First
  <2> QED BY <1>3, <2>4, <2>6 DEF IInv
<1>8. CASE Step(t)
  <2>1. UNCHANGED <<nested, _first_error_tid, _message, recursive_error_count, aborted>>
    BY <1>8 DEF Step
  <2>2. /\ at[t] = "report" /\ at'[t] = "print" /\ First(t) /\ _current_step < Steps
        /\ _current_step' = _current_step + 1 /\ begun' = Append(begun, _current_step + 1)
    BY <1>8 DEF Step, Moves, IInv, Fields, Report, Reporter
  <2>3. /\ _current_step \in Nat /\ Steps \in Nat /\ begun \in Seq(Nat) /\ Len(begun) = _current_step
        /\ \A i \in 1..Len(begun) : begun[i] = i
    <3>1. _current_step \in 0..Steps /\ begun \in Seq(Nat) /\ Len(begun) = _current_step
      BY DEF IInv, Fields, Report
    <3>2. \A i \in DOMAIN begun : begun[i] = i
      BY DEF IInv, ReportSound
    <3>3. _current_step \in Nat /\ Steps \in Nat /\ DOMAIN begun = 1..Len(begun)
      BY <3>1, VMErrorAssumption
    <3> QED
      BY <3>1, <3>2, <3>3
  <2>4. /\ begun' \in Seq(Nat) /\ Len(begun') = _current_step + 1
        /\ DOMAIN begun' = 1..(_current_step + 1)
        /\ \A i \in DOMAIN begun' : begun'[i] = i
    BY <2>2, <2>3
  <2>5. Fields' /\ ReportSound'
    <3>1. _current_step' \in 0..Steps
      BY <2>2, <2>3
    <3>2. Fields'
      BY <1>1, <1>2, <2>1, <2>4, <3>1 DEF IInv, Fields
    <3>3. aborted' => recursive_error_count' > MaxRecursive
      BY <1>1, <2>1
    <3>4. \A i \in DOMAIN file : file[i].what = "step" =>
             file[i].by = _first_error_tid /\ file[i].about = <<_first_error_tid, FALSE>>
      BY DEF IInv, ReportSound
    <3> QED
      BY <1>1, <2>1, <2>4, <3>2, <3>3, <3>4 DEF ReportSound
  <2>6. Reporter(t)' /\ Len(begun') = _current_step'
    BY <1>1, <1>2, <2>1, <2>2, <2>3, <2>4 DEF IInv, Report, Reporter, First
  <2>7. Report'
    BY <1>1, <1>2, <2>1, <2>2, <2>3, <2>4, <2>6, OthersReport DEF First
  <2> QED BY <1>3, <2>5, <2>7 DEF IInv
<1>9. CASE Abort(t)
  <2>1. UNCHANGED <<nested, _first_error_tid, _message, recursive_error_count, _current_step, begun>>
    BY <1>9 DEF Abort
  <2>2. at[t] = "abort" /\ at'[t] = "none" /\ aborted' = TRUE /\ Len(begun) = Steps
    BY <1>9 DEF Abort, Moves, IInv, Fields, Report, Reporter
  <2>3. Fields' /\ ReportSound'
    BY <1>1, <1>2, <2>1, <2>2 DEF IInv, Fields, ReportSound
  <2>4. Reporter(t)' /\ Len(begun') = _current_step'
    BY <1>1, <1>2, <2>1, <2>2 DEF IInv, Report, Reporter, First
  <2>5. Report'
    BY <1>1, <1>2, <2>1, <2>2, <2>4, OthersReport DEF First
  <2> QED BY <1>3, <2>3, <2>5 DEF IInv
<1>10. CASE Fail(t)
  <2>1. UNCHANGED <<_first_error_tid, _message, recursive_error_count, _current_step, begun,
                    aborted, reportVars>>
    BY <1>10 DEF Fail, reportVars
  <2>2. /\ at[t] \in {"copy", "report", "print"} /\ at'[t] = "enter" /\ nested'[t] = TRUE
    BY <1>10 DEF Fail, IInv, Fields
  <2>3. Fields' /\ ReportSound'
    BY <1>1, <1>2, <2>1 DEF IInv, Fields, ReportSound
  <2>4. Reporter(t)' /\ Len(begun') = _current_step'
    BY <1>2, <2>1, <2>2 DEF IInv, Report, Reporter, First
  <2>5. Report'
    BY <1>2, <2>1, <2>2, <2>4, OthersReport DEF First
  <2> QED BY <1>3, <2>3, <2>5 DEF IInv
<1> QED
  BY <1>4, <1>5, <1>6, <1>7, <1>8, <1>9, <1>10

(* A step of the report that writes.                                       *)
LEMMA WritingKeeps ==
    ASSUME IInv, NEW t \in Threads, Reporting(t),
           Also(t) \/ TooMany(t) \/ Again(t) \/ PrintStep(t)
    PROVE  IInv'
<1>1. /\ UNCHANGED <<line, nested, _first_error_tid, _message, recursive_error_count,
                     _current_step, begun>>
      /\ ~aborted /\ at[t] # "none"
  BY DEF Also, TooMany, Again, PrintStep, Reporting, Moves, reportVars
<1>2. Outside(t)
  BY <1>1 DEF IInv, Writing, Outside
<1>3. /\ at' \in [Threads -> ReportPcs]
      /\ \A u \in Threads : u # t => at'[u] = at[u]
  BY DEF Also, TooMany, Again, PrintStep, Moves, IInv, Fields, ReportPcs
<1>4. PICK p \in Notes \cup StepNotes :
        /\ p.by = t /\ write(t, p)
        /\ p.what = "step" => at[t] = "print" /\ p.about = _message
  <2>1. CASE Also(t)
    <3>1. [by |-> t, what |-> "also"] \in Notes
      BY DEF Notes
    <3> QED BY <2>1, <3>1 DEF Also
  <2>2. CASE TooMany(t)
    <3>1. [by |-> t, what |-> "too_many"] \in Notes
      BY DEF Notes
    <3> QED BY <2>2, <3>1 DEF TooMany
  <2>3. CASE Again(t)
    <3>1. [by |-> t, what |-> "again"] \in Notes
      BY DEF Notes
    <3> QED BY <2>3, <3>1 DEF Again
  <2>4. CASE PrintStep(t)
    <3> DEFINE p == [by |-> t, what |-> "step", step |-> _current_step, about |-> _message]
    <3>1. _current_step \in Nat /\ _message \in (Threads \cup {Nobody}) \X BOOLEAN
      BY VMErrorAssumption DEF IInv, Fields
    <3>2. p \in StepNotes /\ p.by = t /\ p.about = _message
      BY <3>1 DEF StepNotes
    <3>3. write(t, p) /\ at[t] = "print"
      BY <2>4 DEF PrintStep, Moves
    <3> HIDE DEF p
    <3> QED BY <3>2, <3>3
  <2> QED BY <2>1, <2>2, <2>3, <2>4
<1>5. Buffers' /\ Writing' /\ LinesWhole' /\ file' \in Seq(Pieces) /\ holder' = holder
  BY <1>1, <1>2, <1>3, <1>4, LinesKept
<1>6. aborted' \in BOOLEAN /\ (aborted' => recursive_error_count > MaxRecursive)
  <2>1. CASE TooMany(t)
    <3>1. at[t] = "too_many" /\ aborted'
      BY <2>1 DEF TooMany, Moves
    <3> QED
      BY <3>1 DEF IInv, Report, Reporter, TooMany
  <2>2. CASE ~TooMany(t)
    <3>1. aborted' = aborted
      BY <2>2 DEF Also, Again, PrintStep, reportVars
    <3> QED
      BY <1>1, <3>1 DEF IInv, Fields
  <2> QED
    BY <2>1, <2>2
<1>7. Fields'
  BY <1>1, <1>3, <1>5, <1>6 DEF IInv, Fields
<1>8. ReportSound'
  <2>1. file' = Append(file, p) /\ p \in Pieces
    BY <1>4 DEF write, Pieces
  <2>2. /\ DOMAIN file = 1..Len(file) /\ DOMAIN file' = 1..(Len(file) + 1) /\ Len(file) \in Nat
        /\ \A i \in DOMAIN file : file'[i] = file[i]
        /\ file'[Len(file) + 1] = p
    BY <2>1, Appended DEF IInv
  <2>3. p.what = "step" => p.by = _first_error_tid /\ p.about = <<_first_error_tid, FALSE>>
    BY <1>4 DEF IInv, Report, Reporter, First
  <2>4. \A i \in DOMAIN file' : file'[i].what = "step" =>
           file'[i].by = _first_error_tid /\ file'[i].about = <<_first_error_tid, FALSE>>
    <3> SUFFICES ASSUME NEW i \in DOMAIN file', file'[i].what = "step"
                 PROVE  file'[i].by = _first_error_tid /\ file'[i].about = <<_first_error_tid, FALSE>>
      OBVIOUS
    <3>1. CASE i \in DOMAIN file
      BY <2>2, <3>1 DEF IInv, ReportSound
    <3>2. CASE i = Len(file) + 1
      BY <2>2, <2>3, <3>2
    <3>3. i \in DOMAIN file \/ i = Len(file) + 1
      BY <2>2
    <3> QED BY <3>1, <3>2, <3>3
  <2> QED
    BY <1>1, <1>6, <2>4 DEF IInv, ReportSound
<1>9. Report'
  <2>1. \/ at[t] = "later" /\ at'[t] = "asleep" /\ ~First(t)
        \/ at[t] = "too_many" /\ at'[t] = "none" /\ aborted' = TRUE
        \/ at[t] = "again" /\ at'[t] = "report"
        \/ at[t] = "print" /\ at'[t] = "report"
    BY DEF Also, TooMany, Again, PrintStep, Moves, IInv, Fields, First
  <2>2. aborted => aborted'
    BY <1>1
  <2>3. Reporter(t)' /\ Len(begun') = _current_step'
    BY <1>1, <1>3, <2>1, <2>2 DEF IInv, Report, Reporter, First
  <2> QED
    BY <1>1, <1>3, <2>2, <2>3, OthersReport DEF First
<1> QED
  BY <1>5, <1>7, <1>8, <1>9 DEF IInv

-----------------------------------------------------------------------------
LEMMA InitIInv == Init => IInv
<1> SUFFICES ASSUME Init PROVE IInv
  OBVIOUS
<1>1. /\ line = [t \in Threads |-> NoLine(0)] /\ file = <<>> /\ holder = Nobody
      /\ at = [t \in Threads |-> "none"] /\ nested = [t \in Threads |-> FALSE]
      /\ _first_error_tid = Nobody /\ _message = <<Nobody, FALSE>>
      /\ recursive_error_count = 0 /\ _current_step = 0 /\ begun = <<>> /\ aborted = FALSE
  BY DEF Init, StreamInit, LogInit, ErrInit, NoMessage
<1>2. NoLine(0) \in Lines /\ BufferOK(NoLine(0)) /\ NoLine(0).pc = "none"
  BY EmptyLine
<1>3. Fields
  <2>1. line \in [Threads -> Lines] /\ at \in [Threads -> ReportPcs] /\ nested \in [Threads -> BOOLEAN]
    BY <1>1, <1>2 DEF ReportPcs
  <2>2. recursive_error_count \in Nat /\ _current_step \in 0..Steps
    BY <1>1, VMErrorAssumption
  <2>3. begun \in Seq(Nat) /\ file \in Seq(Pieces)
    BY <1>1
  <2> QED
    BY <1>1, <2>1, <2>2, <2>3 DEF Fields
<1>4. Buffers
  BY <1>1, <1>2 DEF Buffers, BufferOK
<1>5. Writing
  BY <1>1, <1>2 DEF Writing
<1>6. Report
  BY <1>1, StreamAssumption DEF Report, Reporter, First
<1>7. ReportSound
  BY <1>1 DEF ReportSound
<1>8. LinesWhole
  <2>1. Adjacent
    BY <1>1 DEF Adjacent
  <2> QED BY <1>4, <2>1, AdjacentLines DEF Buffers
<1> QED
  BY <1>3, <1>4, <1>5, <1>6, <1>7, <1>8 DEF IInv

LEMMA Inductive == IInv /\ [Next]_vars => IInv'
<1> SUFFICES ASSUME IInv, [Next]_vars PROVE IInv'
  OBVIOUS
<1>1. CASE UNCHANGED vars
  BY <1>1 DEF vars, streamVars, errVars, reportVars, IInv, Fields, Buffers, Writing, Last, Report,
     Reporter, First, LinesWhole, ReportSound
<1>2. CASE Next
  <2>1. PICK t \in Threads :
          Logs(t) \/ Outputs(t) \/ Asserts(t) \/ Reporting(t) \/ Failing(t)
    BY <1>2 DEF Next
  <2>2. CASE Reporting(t)
    BY <2>2, QuietKeeps, WritingKeeps DEF Reporting, Reports
  <2>3. CASE Failing(t)
    BY <2>3, QuietKeeps DEF Failing
  <2> QED
    BY <2>1, <2>2, <2>3, LogsKeep, OutputsKeep, AssertsKeep
<1> QED
  BY <1>1, <1>2

(* A line is whole: its header, tab and text follow one another, whoever   *)
(* logs or reports an error meanwhile; and a text without a percent sign is*)
(* what print() accepted, whatever the second formatting makes of others.  *)
THEOREM WholeLines == Spec => []LinesWhole
<1>1. IInv => LinesWhole
  BY DEF IInv
<1> QED
  BY <1>1, InitIInv, Inductive, PTL DEF Spec

(* One thread reports the error that came first, each step once, and the   *)
(* process ends only after the whole report or too many errors inside it.  *)
THEOREM OneReport == Spec => []ReportSound
<1>1. IInv => ReportSound
  BY DEF IInv
<1> QED
  BY <1>1, InitIInv, Inductive, PTL DEF Spec
=============================================================================
