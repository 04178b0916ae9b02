-------------------------------- MODULE Sperf --------------------------------
(***************************************************************************)
(* sperf (M3/sperf.c): a profile of the system calls of a program.  The    *)
(* child becomes strace, whose output comes through a pipe; a thread of    *)
(* the parent (receiver) copies it to records.txt; its main thread         *)
(* (parent) reads that file from the start once a second, adds up the time *)
(* of each call, and shows the longest.                                    *)
(*                                                                         *)
(* A line of strace is two pieces: the name of the call, and the rest with *)
(* its time and the newline.  The pipe, the buffer of stdio and a pass of  *)
(* the main thread may end between the two.  The traced program inherits   *)
(* stderr from strace, so that its own output goes into the same pipe and  *)
(* breaks the lines of strace: what sperf shows then is open, and Prefix   *)
(* and LastComplete are about a program that writes nothing to stderr.     *)
(***************************************************************************)
EXTENDS Integers, Sequences, FiniteSets, SequencesExt, FiniteSetsExt

CONSTANTS Cmd,       \* names of system calls
          Time,      \* the times that calls take
          NoTime,    \* of a line without "<...>", such as the one at exit
          Angle,     \* of a line with a "<" before that of its time
          Rows,      \* how many calls a picture shows (5)
          Text,      \* output of the program without a newline
          TextLine,  \* and with one at its end
          Other,     \* what is not the name of a call
          MaxLines,  \* bound: the lines strace writes; one text of the
                     \* program counts as two
          None       \* no file, no name

ASSUME TimeAssumption ==
  /\ Time \subseteq Nat \ {0}
  /\ {NoTime, Angle, Text, TextLine, Other} \cap (Time \cup Cmd \cup {None}) = {}
ASSUME RowsAssumption == Rows \in Nat \ {0} /\ MaxLines \in Nat

VARIABLES traced,       \* history: the lines that strace has written
          open,         \* whether strace has the pipe open
          quiet,        \* history: the program has written nothing to stderr
          pipe,         \* the pieces in the pipe
          written,      \* the pieces in the buffer of the receiver's FILE
          file,         \* the pieces in records.txt, or None
          isfinish,
          rpc,          \* where the receiver is
          pc,           \* where the main thread is
          flag, pos,    \* its locals, and its position in the file
          str,          \* its buffer: nothing (None), the name of a call, or
                        \* what is not the start of a line of strace (Other)
          map,          \* the list of rcrd, without the head node
          totaltime,
          fresh         \* history: receiver had made the file when this pass
                        \* opened it

strace   == <<traced, open, quiet>>
receiver == <<written, rpc, isfinish>>
pass     == <<pos, str, map, totaltime, fresh>>
vars == <<strace, pipe, file, receiver, pc, flag, pass>>

Line == [cmd : Cmd, time : Time \cup {NoTime, Angle}]
Piece == Cmd \cup Time \cup {NoTime, Angle, Text, TextLine}
Record == [cmd : Cmd \cup {Other}, time : Nat]
Stopped == {"done", "no file", "assert"}

TypeOK == /\ traced \in Seq(Line)
          /\ open \in BOOLEAN /\ quiet \in BOOLEAN
          /\ pipe \in Seq(Piece) /\ written \in Seq(Piece)
          /\ file = None \/ file \in Seq(Piece)
          /\ isfinish \in {0, 1}
          /\ rpc \in {"create", "read", "finish", "done"}
          /\ pc \in {"sleep", "open", "read", "print", "join", "remove"} \cup Stopped
          /\ flag \in {0, 1}
          /\ pos \in 0 .. 2 * MaxLines
          /\ str \in Cmd \cup {None, Other}
          /\ map \in Seq(Record)
          /\ totaltime \in Nat
          /\ fresh \in BOOLEAN

\* What the fork in main gives: strace has the pipe open, and nothing is in it.
Forked == traced = <<>> /\ open = TRUE /\ quiet = TRUE /\ pipe = <<>>

\* After fork and pthread_create.  records.txt may be left from a run of sperf
\* that failed (one such file stands for all).
Init == /\ Forked /\ written = <<>>
        /\ file \in {None, <<CHOOSE c \in Cmd : TRUE, CHOOSE t \in Time : TRUE>>}
        /\ isfinish = 0
        /\ rpc = "create" /\ pc = "sleep"
        /\ flag = 0 /\ pos = 0
        /\ str = None
        /\ map = <<>> /\ totaltime = 0
        /\ fresh = FALSE
------------------------------------------------------------------------------
(* strace, and the program it traces *)

\* How many more lines and texts there may be.
Left == MaxLines - Len(traced) - (IF quiet THEN 0 ELSE 2)

Trace == /\ pc \notin Stopped
         /\ open
         /\ Left > 0
         /\ \E l \in Line : /\ traced' = Append(traced, l)
                            /\ pipe' = pipe \o <<l.cmd, l.time>>
         /\ UNCHANGED <<open, quiet, file, receiver, pc, flag, pass>>

\* The program writes to stderr, which is the pipe since dup2: its text comes
\* after the name of the call that writes it (which has a time), or between two
\* lines (from a process that strace does not follow).
Output == /\ pc \notin Stopped
          /\ open
          /\ quiet /\ Left > 1
          /\ quiet' = FALSE
          /\ \E x \in {Text, TextLine} :
               \/ pipe' = Append(pipe, x) /\ UNCHANGED traced
               \/ \E l \in [cmd : Cmd, time : Time] :
                     /\ traced' = Append(traced, l)
                     /\ pipe' = pipe \o <<l.cmd, x, l.time>>
          /\ UNCHANGED <<open, file, receiver, pc, flag, pass>>

Exit == /\ pc \notin Stopped
        /\ open
        /\ open' = FALSE
        /\ UNCHANGED <<traced, quiet, pipe, file, receiver, pc, flag, pass>>
------------------------------------------------------------------------------
(* receiver *)

\* Variant: a file that is there keeps what is in it.
CreateAppend == /\ pc \notin Stopped
                /\ rpc = "create"
                /\ rpc' = "read"
                /\ file' = IF file = None THEN <<>> ELSE file
                /\ UNCHANGED <<strace, pipe, written, isfinish, pc, flag, pass>>

\* fopen("./records.txt","w")
Create == /\ pc \notin Stopped
          /\ rpc = "create"
          /\ rpc' = "read"
          /\ file' = <<>>
          /\ UNCHANGED <<strace, pipe, written, isfinish, pc, flag, pass>>

\* read takes what is in the pipe, or less; fputs writes to the file what stdio
\* has no room to keep.
Receive == /\ pc \notin Stopped
           /\ rpc = "read"
           /\ \E n \in 1 .. Len(pipe) :
                LET all == written \o SubSeq(pipe, 1, n)
                IN \E m \in 0 .. Len(all) :
                     /\ file' = file \o SubSeq(all, 1, m)
                     /\ written' = SubSeq(all, m + 1, Len(all))
                     /\ pipe' = SubSeq(pipe, n + 1, Len(pipe))
           /\ UNCHANGED <<strace, rpc, isfinish, pc, flag, pass>>

\* Variant: isfinish is set without fclose.
CloseUnwritten == /\ pc \notin Stopped
                  /\ rpc = "read"
                  /\ pipe = <<>> /\ ~open
                  /\ rpc' = "finish"
                  /\ UNCHANGED <<strace, pipe, file, written, isfinish, pc, flag, pass>>

\* read gives 0; fclose writes the rest.
Close == /\ pc \notin Stopped
         /\ rpc = "read"
         /\ pipe = <<>> /\ ~open
         /\ rpc' = "finish"
         /\ file' = file \o written
         /\ written' = <<>>
         /\ UNCHANGED <<strace, pipe, isfinish, pc, flag, pass>>

\* Variant: isfinish is not set.
FinishUnset == /\ pc \notin Stopped
               /\ rpc = "finish"
               /\ rpc' = "done"
               /\ UNCHANGED <<strace, pipe, file, written, isfinish, pc, flag, pass>>

Finish == /\ pc \notin Stopped
          /\ rpc = "finish"
          /\ rpc' = "done"
          /\ isfinish' = 1
          /\ UNCHANGED <<strace, pipe, file, written, pc, flag, pass>>
------------------------------------------------------------------------------
(* record: the list of calls, sorted by their time.  A record is moved        *)
(* forward by exchanging it with the one before.                              *)

\* m with its i-th record moved before all that are shorter.
Raise(m, i) ==
  LET longer == Cardinality({j \in 1 .. i - 1 : m[j].time >= m[i].time})
  IN [j \in 1 .. Len(m) |-> IF j <= longer \/ j > i THEN m[j]
                            ELSE IF j = longer + 1 THEN m[i] ELSE m[j - 1]]

\* Variant: only a new record is moved.
AddInPlace(m, c, t) ==
  LET i == SelectInSeq(m, LAMBDA r : r.cmd = c)
  IN IF i # 0 THEN [m EXCEPT ![i].time = @ + t]
              ELSE Raise(Append(m, [cmd |-> c, time |-> t]), Len(m) + 1)

Add(m, c, t) ==
  LET i == SelectInSeq(m, LAMBDA r : r.cmd = c)
  IN IF i # 0 THEN Raise([m EXCEPT ![i].time = @ + t], i)
              ELSE Raise(Append(m, [cmd |-> c, time |-> t]), Len(m) + 1)
------------------------------------------------------------------------------
(* parent *)

\* Whether this pass is the last is decided before the file is opened.
Wake == /\ pc = "sleep"
        /\ pc' = "open"
        /\ flag' = flag + isfinish
        /\ totaltime' = 0
        /\ UNCHANGED <<strace, pipe, file, receiver, pos, str, map, fresh>>

Open == /\ pc = "open"
        /\ pc' = IF file = None THEN "no file" ELSE "read"
        /\ pos' = 0
        /\ str' = None
        /\ fresh' = (rpc # "create")
        /\ UNCHANGED <<strace, pipe, file, receiver, flag, map, totaltime>>

\* What record may do with a line that is not strace's, or has a text of the
\* program in it: it has no "<...>"; or what is there is no number, or no "("
\* follows within the buffer, and sperf stops; or its time is counted for
\* whatever the line starts with, at times the name of a call.
RecordOther(piece) ==
  \/ UNCHANGED <<pc, map, totaltime>>
  \/ pc' = "assert" /\ UNCHANGED <<map, totaltime>>
  \/ \E c \in Cmd \cup {Other}, t \in IF piece \in Time THEN {piece} ELSE Time :
        /\ map' = Add(map, c, t)
        /\ totaltime' = totaltime + t
        /\ UNCHANGED pc

\* "<.*>" matches from the first "<" of strace's line, and what follows it must
\* be a number.
RecordLine(piece) ==
  \/ /\ piece \in Time
     /\ map' = Add(map, str, piece)
     /\ totaltime' = totaltime + piece
     /\ UNCHANGED pc
  \/ /\ piece \in {NoTime, Angle}
     /\ pc' = IF piece = Angle THEN "assert" ELSE pc
     /\ UNCHANGED <<map, totaltime>>

\* A line is recorded at its newline.
Read == /\ pc = "read"
        /\ pos < Len(file)
        /\ pos' = pos + 1
        /\ LET piece == file[pos + 1]
           IN \/ /\ piece \in Cmd \cup {Text}
                 /\ str' = IF str = None /\ piece \in Cmd THEN piece ELSE Other
                 /\ UNCHANGED <<pc, map, totaltime>>
              \/ /\ piece \notin Cmd \cup {Text}
                 /\ str' = None
                 /\ IF str \in Cmd /\ piece # TextLine THEN RecordLine(piece)
                                                     ELSE RecordOther(piece)
        /\ UNCHANGED <<strace, pipe, file, receiver, flag, fresh>>

\* EOF for now: a line without its newline is left out.
ReadEnd == /\ pc = "read"
           /\ pos >= Len(file)
           /\ pc' = "print"
           /\ str' = None
           /\ UNCHANGED <<strace, pipe, file, receiver, flag, pos, map, totaltime, fresh>>

\* cleanmap leaves the head node only.
CleanMap == map' = <<>>

\* Variant: the list is not emptied.
ShowKeepMap == /\ pc = "print"
               /\ pc' = IF flag = 0 THEN "sleep" ELSE "join"
               /\ pos' = 0 /\ fresh' = FALSE
               /\ UNCHANGED <<strace, pipe, file, receiver, flag, str, map, totaltime>>

\* fclose, printmap (its Picture is shown), cleanmap
Show == /\ pc = "print"
        /\ pc' = IF flag = 0 THEN "sleep" ELSE "join"
        /\ pos' = 0 /\ fresh' = FALSE
        /\ CleanMap
        /\ UNCHANGED <<strace, pipe, file, receiver, flag, str, totaltime>>

Join == /\ pc = "join"
        /\ rpc = "done"
        /\ pc' = "remove"
        /\ UNCHANGED <<strace, pipe, file, receiver, flag, pass>>

Unlink == /\ pc = "remove"
          /\ pc' = "done"
          /\ file' = None
          /\ UNCHANGED <<strace, pipe, receiver, flag, pass>>
------------------------------------------------------------------------------
Receiver == Create \/ Receive \/ Close \/ Finish
Parent == Wake \/ Open \/ Read \/ ReadEnd \/ Show \/ Join \/ Unlink

Next == Trace \/ Output \/ Exit \/ Receiver \/ Parent

\* The operating system keeps running both threads; strace need not end.
Spec == Init /\ [][Next]_vars /\ WF_vars(Receiver) /\ WF_vars(Parent)
------------------------------------------------------------------------------
(* Properties *)

\* The time that a sequence of lines gives to call c (NoTime and Angle: none).
Sum(lines, c) == FoldLeft(LAMBDA n, l : IF l.cmd = c /\ l.time \in Time THEN n + l.time ELSE n,
                          0, lines)
Total(lines) == FoldLeft(LAMBDA n, l : IF l.time \in Time THEN n + l.time ELSE n, 0, lines)
Seen(lines) == {l.cmd : l \in {k \in ToSet(lines) : k.time \in Time}}

\* What the list and the total must be after some lines.
Profile(lines, m, total) ==
  /\ {r.cmd : r \in ToSet(m)} = Seen(lines)
  /\ \A r \in ToSet(m) : r.time = Sum(lines, r.cmd)
  /\ total = Total(lines)

\* record keeps the list sorted, with one record for a call, and its times
\* add up to the total.
Sorted == /\ \A i \in 1 .. Len(map) - 1 : map[i].time >= map[i + 1].time
          /\ \A i, j \in 1 .. Len(map) : map[i].cmd = map[j].cmd => i = j
          /\ pc \in {"read", "print"} => totaltime = FoldLeft(LAMBDA n, r : n + r.time, 0, map)

\* A pass over the new file counts a prefix of what strace wrote, each line
\* once and none in part, wherever the receiver is with its writing, if the
\* program itself writes nothing to stderr.
Prefix == pc = "print" /\ fresh /\ quiet =>
            \E n \in 0 .. Len(traced) : Profile(SubSeq(traced, 1, n), map, totaltime)

\* The last picture has everything, if the program itself writes nothing to
\* stderr: the total of all lines that strace wrote, and the calls that took
\* the longest.
Picture == SubSeq(map, 1, Min({Rows, Len(map)}))

LastComplete ==
  pc = "print" /\ flag = 1 /\ quiet =>
     /\ totaltime = Total(traced)
     /\ Len(Picture) = Min({Rows, Cardinality(Seen(traced))})
     /\ \A i \in 1 .. Len(Picture) :
          /\ Picture[i].time = Sum(traced, Picture[i].cmd)
          /\ \A c \in Seen(traced) \ {Picture[j].cmd : j \in 1 .. i} :
               Picture[i].time >= Sum(traced, c)

\* Once strace has closed the pipe, sperf comes to an end: it joins the
\* receiver and removes the file, or has stopped at an error.
Ends == ~open ~> pc \in Stopped
==============================================================================
