--------------------------------- MODULE Ioe ---------------------------------
(* The device drivers of x86-qemu (am/src/x86/qemu/ioe.c): the clock that is *)
(* read one register at a time while it ticks, the disk that is busy after   *)
(* every command, and the frame buffer with its clipping.  One processor     *)
(* calls them; the devices move on their own between two port accesses.      *)
(*                                                                           *)
(* The clock counts seconds; register "hour" stands for the hours and all    *)
(* above them.  A block of the disk is one value.                            *)
EXTENDS Integers, Sequences

CONSTANTS
  SecPerMin, MinPerHour,  \* sixty each
  Start,                  \* when the machine may be switched on, in seconds
  MaxTicks,               \* bound: how long the machine is watched
  Block, MaxBlocks,       \* block numbers, and the most of one transfer
  None

ASSUME IoeAssumption ==
  /\ SecPerMin \in Nat \ {0, 1} /\ MinPerHour \in Nat \ {0, 1}
  /\ Start \subseteq Nat
  /\ MaxTicks \in 1..(SecPerMin * MinPerHour - 1)
  /\ Block \subseteq Nat
  /\ MaxBlocks \in Nat

VARIABLES
  now, started,   \* the clock, and when it was first looked at
  slack,          \* ticks since the loop that is running began its round
  pc,             \* "wait_sec", "timer_rtc", "idle", "blkio" or a program's own
  rtc,            \* the registers read in this pass, the second first
  t0,             \* the second that wait_sec read before its delay
  marks,          \* what wait_sec returned, and the time stamp taken then
  freq,           \* seconds by the registers and by the time stamps
  date,           \* what timer_rtc returned, and when its last pass began
  disk, dev, bio, \* the blocks, the controller, the transfer under way
  want            \* the blocks as the callers of disk_blkio left them

clockVars == <<slack, rtc, t0, marks, freq, date>>
diskVars == <<disk, dev, bio, want>>
ioeVars == <<now, started, pc, clockVars, diskVars>>

-----------------------------------------------------------------------------
(* The clock                                                                 *)

Register(t, k) ==
  CASE k = 1 -> t % SecPerMin
    [] k = 2 -> (t \div SecPerMin) % MinPerHour
    [] k = 3 -> t \div (SecPerMin * MinPerHour)

\* A round of wait_sec takes less than a second and a pass of timer_rtc less
\* than a minute.
Room == IF pc = "wait_sec" THEN 1 ELSE SecPerMin - 1

\* A second passes while the registers are being read.
Tick ==
  /\ pc \in {"wait_sec", "timer_rtc"}
  /\ now - started < MaxTicks /\ slack < Room
  /\ now' = now + 1 /\ slack' = slack + 1
  /\ UNCHANGED <<started, pc, rtc, t0, marks, freq, date, diskVars>>

\* read_rtc_async reads the next register.
ReadRtc ==
  /\ pc \in {"wait_sec", "timer_rtc"} /\ Len(rtc) < 3
  /\ rtc' = Append(rtc, Register(now, Len(rtc) + 1))
  /\ UNCHANGED <<now, started, slack, pc, t0, marks, freq, date, diskVars>>

\* wait_sec has its first reading.
Delay ==
  /\ pc = "wait_sec" /\ Len(rtc) = 3 /\ t0 = None
  /\ t0' = rtc[1] /\ rtc' = <<>>
  /\ UNCHANGED <<now, started, slack, pc, marks, freq, date, diskVars>>

\* estimate_freq gives up when an hour has passed between the readings.
HourPassed(m) == Len(m) = 2 /\ m[1].clock >= m[2].clock

\* wait_sec has its second reading: another round if the second is the same,
\* else estimate_freq takes the time stamp, and has the frequency or retries.
Compare ==
  /\ pc = "wait_sec" /\ Len(rtc) = 3 /\ t0 # None
  /\ rtc' = <<>> /\ t0' = None /\ slack' = 0
  /\ LET read == [clock |-> rtc[2] * SecPerMin + rtc[1], at |-> now]
         m == IF rtc[1] = t0 THEN marks ELSE Append(marks, read)
     IN /\ marks' = IF HourPassed(m) \/ Len(m) = 2 THEN <<>> ELSE m
        /\ IF Len(m) = 2 /\ ~HourPassed(m)
             THEN /\ freq' = [clock |-> m[2].clock - m[1].clock, tsc |-> m[2].at - m[1].at]
                  /\ pc' = "timer_rtc"
                  /\ date' = [rtc |-> None, since |-> now]
             ELSE UNCHANGED <<freq, pc, date>>
  /\ UNCHANGED <<now, started, diskVars>>

\* A variant for checking the properties: the date is not read again.
TakeDate ==
  /\ pc = "timer_rtc" /\ Len(rtc) = 3
  /\ rtc' = <<>> /\ slack' = 0
  /\ date' = [date EXCEPT !.rtc = rtc] /\ pc' = "idle"
  /\ UNCHANGED <<now, started, t0, marks, freq, diskVars>>

\* timer_rtc reads the second again: the date is good if it has not moved.
Recheck ==
  /\ pc = "timer_rtc" /\ Len(rtc) = 3
  /\ rtc' = <<>> /\ slack' = 0
  /\ IF Register(now, 1) = rtc[1]
       THEN /\ date' = [date EXCEPT !.rtc = rtc]
            /\ pc' = "idle"
       ELSE /\ date' = [date EXCEPT !.since = now]
            /\ UNCHANGED pc
  /\ UNCHANGED <<now, started, t0, marks, freq, diskVars>>

\* A program asks for the date.
TimerRtc ==
  /\ pc = "idle"
  /\ pc' = "timer_rtc" /\ slack' = 0
  /\ date' = [rtc |-> None, since |-> now]
  /\ UNCHANGED <<now, started, rtc, t0, marks, freq, diskVars>>

-----------------------------------------------------------------------------
(* The disk                                                                  *)

\* disk_blkio is called with a buffer.
DiskBlkio ==
  /\ pc = "idle" /\ bio = None
  /\ \E write \in BOOLEAN, blkno \in Block, count \in 1..MaxBlocks, v \in {0, 1} :
       /\ blkno + count - 1 \in Block
       /\ bio' = [write |-> write, blkno |-> blkno, remain |-> count, command |-> FALSE,
                  buf |-> [i \in 1..count |-> IF write THEN (v + i) % 2 ELSE None]]
  /\ pc' = "blkio"
  /\ UNCHANGED <<now, started, clockVars, disk, dev, want>>

\* wait_disk: not busy, and ready.
WaitDisk == dev.state # "busy"

\* How many blocks of the transfer have been moved, and this one.
Index == Len(bio.buf) - bio.remain + 1

\* The block number and the command; a busy controller does not hear them.
DiskCommand ==
  /\ pc = "blkio" /\ bio.remain > 0 /\ ~bio.command /\ WaitDisk
  /\ dev' = IF dev.state = "busy" THEN dev
            ELSE [state |-> "busy", next |-> IF bio.write THEN "take" ELSE "give",
                  blkno |-> bio.blkno, data |-> None]
  /\ bio' = [bio EXCEPT !.command = TRUE]
  /\ UNCHANGED <<now, started, pc, clockVars, disk, want>>

\* The words of one block; a controller that does not expect them drops them.
DiskTransfer ==
  /\ pc = "blkio" /\ bio.remain > 0 /\ bio.command /\ WaitDisk
  /\ dev' = CASE dev.state = "take" /\ bio.write ->
                   [dev EXCEPT !.state = "busy", !.next = "ready", !.data = bio.buf[Index]]
              [] dev.state = "give" /\ ~bio.write -> [dev EXCEPT !.state = "ready"]
              [] OTHER -> dev
  /\ bio' = [bio EXCEPT !.remain = @ - 1, !.blkno = @ + 1, !.command = FALSE,
               !.buf[Index] = IF bio.write THEN @
                              ELSE IF dev.state = "give" THEN disk[dev.blkno] ELSE None]
  /\ want' = IF bio.write THEN [want EXCEPT ![bio.blkno] = bio.buf[Index]] ELSE want
  /\ UNCHANGED <<now, started, pc, clockVars, disk>>

\* The controller has done what it was busy with.
Controller ==
  /\ dev.state = "busy"
  /\ dev' = [dev EXCEPT !.state = dev.next]
  /\ disk' = IF dev.next = "ready" THEN [disk EXCEPT ![dev.blkno] = dev.data] ELSE disk
  /\ UNCHANGED <<now, started, pc, clockVars, bio, want>>

\* disk_blkio returns.
DiskDone ==
  /\ pc = "blkio" /\ bio.remain = 0
  /\ bio' = None /\ pc' = "idle"
  /\ UNCHANGED <<now, started, clockVars, disk, dev, want>>

-----------------------------------------------------------------------------
(* The frame buffer                                                          *)

\* A variant for checking the properties: nothing is cut off at the right.
FbDrawWide(x, y, w, h, W, H) ==
  {(x + i) + (y + j) * W : i \in 0..(w - 1), j \in {k \in 0..(h - 1) : y + k < H}}

\* The pixels that gpu_fbdraw writes, numbered line by line: what lies to the
\* right of the last column or below the last line is cut off.
FbDraw(x, y, w, h, W, H) ==
  LET len == IF x + w >= W THEN W - x ELSE w
  IN {(x + i) + (y + j) * W : i \in 0..(len - 1), j \in {k \in 0..(h - 1) : y + k < H}}

-----------------------------------------------------------------------------
\* ioe_init begins with the clock: timer_init runs estimate_freq.
IoeInit ==
  /\ now \in Start /\ started = now
  /\ slack = 0 /\ pc = "wait_sec" /\ rtc = <<>> /\ t0 = None /\ marks = <<>>
  /\ freq = None /\ date = None
  /\ disk = [b \in Block |-> 0] /\ want = disk /\ bio = None
  /\ dev = [state |-> "ready", next |-> "ready", blkno |-> 0, data |-> None]

Clock == Tick \/ ReadRtc \/ Delay \/ Compare \/ Recheck
Disk == DiskBlkio \/ DiskCommand \/ DiskTransfer \/ Controller \/ DiskDone

-----------------------------------------------------------------------------
(* Properties                                                                *)

\* The frequency of the time stamps is a quotient of two measurements that
\* tick on their own: the seconds that the registers show to have passed are
\* the seconds between the two time stamps, also around the turn of a minute
\* or of an hour.
EstimateRight == freq # None => freq.clock = freq.tsc /\ freq.clock > 0

\* A date that timer_rtc returns is one that the clock has shown since the
\* call's last pass began, never the hour of one time with the second of
\* another.
RtcSnapshot ==
  date # None /\ date.rtc # None =>
    \E t \in date.since..now : date.rtc = [k \in 1..3 |-> Register(t, k)]

\* The controller ends up with what the callers of disk_blkio wrote, block by
\* block and in their order, and a read gives what was written before it.
DiskRight ==
  /\ \A b \in Block :
       want[b] = IF dev.state = "busy" /\ dev.next = "ready" /\ dev.blkno = b
                   THEN dev.data ELSE disk[b]
  /\ bio # None =>
       \A i \in 1..(Index - 1) : bio.buf[i] = want[bio.blkno - Index + i]
=============================================================================
