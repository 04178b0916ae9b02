-------------------------------- MODULE Lab0 --------------------------------
(* lab0 (dir/lab0): a ball that the keys accelerate bounces over a           *)
(* chequered background, one step in a frame of ten milliseconds.  The       *)
(* program draws with gpu_fbdraw, reads the keyboard through keyboard.h, and *)
(* begins when ioe_init has measured the clock.                              *)
EXTENDS Ioe, FiniteSets

CONSTANTS
  ScreenW, ScreenH,   \* of the display
  Num,                \* NUMW and NUMH: cells of the background in each direction
  MaxFrames           \* bound: frames of ten milliseconds

ASSUME Lab0Assumption ==
  /\ Num \in Nat \ {0} /\ ScreenW \div Num > 0 /\ ScreenH \div Num > 0
  /\ MaxFrames \in Nat

VARIABLES
  fb,              \* the color of every pixel; "off" is never painted
  ball,            \* ball_info: x, y, v_x, v_y
  last,            \* where the ball was painted the frame before
  fast,            \* has the ball ever been faster than its field is wide?
  frame,           \* uptime in frames
  frame_old, frame_new,
  moves            \* how often the ball has moved

labVars == <<fb, ball, last, fast, frame, frame_old, frame_new, moves>>
vars == <<ioeVars, labVars>>

\* background_info and the size of the ball.
CellW == ScreenW \div Num
CellH == ScreenH \div Num
Width == Num * CellW
Height == Num * CellH
Size == Height \div (Num + 1)

\* print: one rectangle of one color.
PrintBox(p, x, y, w, h, color) ==
  [i \in DOMAIN p \cup FbDraw(x, y, w, h, ScreenW, ScreenH) |->
     IF i \in FbDraw(x, y, w, h, ScreenW, ScreenH) THEN color ELSE p[i]]

BallPaint(p, b) == PrintBox(p, b.x, b.y, Size, Size, "ball")

\* The cells of the background, column after column.
Background(p) ==
  LET cells[n \in 0..(Num * Num)] ==
        IF n = 0 THEN p
        ELSE LET i == (n - 1) \div Num  j == (n - 1) % Num
             IN PrintBox(cells[n - 1], i * CellW, j * CellH, CellW, CellH,
                      IF i % 2 = j % 2 THEN "color1" ELSE "color2")
  IN cells[Num * Num]

\* One direction of ball: the place after the step is thrown back at the far
\* side and then at the near one, and the speed turns round each time.
Bounce(x, v, room) ==
  LET far == IF x + v > room THEN <<2 * room - (x + v), -v>> ELSE <<x + v, v>>
  IN IF far[1] < 0 THEN <<-far[1], -far[2]>> ELSE far

\* What a scan code is to the program: keylut, and read_keyboard, for which a
\* key that goes up is no key; 0xe0 announces a key and goes up itself.
KeyOf(code) ==
  CASE code = 17 -> "W" [] code = 31 -> "S" [] code = 30 -> "A" [] code = 32 -> "D"
    [] code = 1 -> "ESCAPE" [] OTHER -> "NONE"
ScanCode == {1, 17, 30, 31, 32, 32 + 128, 224}

\* ball(code)
Moved(b, key) ==
  LET vx == b.v_x + (CASE key = "D" -> 1 [] key = "A" -> -1 [] OTHER -> 0)
      vy == b.v_y + (CASE key = "S" -> 1 [] key = "W" -> -1 [] OTHER -> 0)
      h == Bounce(b.x, vx, Width - Size)
      v == Bounce(b.y, vy, Height - Size)
  IN [x |-> h[1], v_x |-> h[2], y |-> v[1], v_y |-> v[2]]

AbsOf(n) == IF n < 0 THEN -n ELSE n

-----------------------------------------------------------------------------
Init ==
  /\ IoeInit
  /\ fb = [i \in 0..(ScreenW * ScreenH - 1) |-> "off"]
  /\ ball = [x |-> 0, y |-> 0, v_x |-> 0, v_y |-> 0] /\ last = ball
  /\ fast = FALSE /\ frame = 0 /\ frame_old = 0 /\ frame_new = 0 /\ moves = 0

\* main, after graph_init, background_init and ball_init.  It never asks for
\* the date or the disk: what they were is dropped, to keep the states few.
Main ==
  /\ pc = "idle" /\ bio = None /\ dev.state = "ready" /\ want = [b \in Block |-> 0]
  /\ pc' = "paint" /\ frame_new' = frame /\ frame_old' = frame
  /\ freq' = None /\ date' = None /\ now' = 0 /\ started' = 0
  /\ dev' = [state |-> "ready", next |-> "ready", blkno |-> 0, data |-> None]
  /\ UNCHANGED <<slack, rtc, t0, marks, disk, bio, want, fb, ball, last, fast, frame, moves>>

\* The background and the ball where it was.
Paint ==
  /\ pc = "paint"
  /\ fb' = BallPaint(Background(fb), ball)
  /\ pc' = "key"
  /\ UNCHANGED <<now, started, clockVars, diskVars, ball, last, fast, frame,
                 frame_old, frame_new, moves>>

\* read_keyboard, and the ball's next place; no scan code is no key.  Escape
\* ends the program.
Key ==
  /\ pc = "key"
  /\ \E code \in ScanCode \cup {None} :
       LET key == IF code = None THEN "NONE" ELSE KeyOf(code)
           b == Moved(ball, key)
       IN IF key = "ESCAPE"
            THEN pc' = "halt" /\ UNCHANGED <<fb, ball, last, fast, moves>>
            ELSE /\ ball' = b /\ last' = ball /\ moves' = moves + 1
                 /\ fast' = (fast \/ AbsOf(b.v_x) > Width - Size
                                  \/ AbsOf(b.v_y) > Height - Size)
                 /\ fb' = BallPaint(fb, b)
                 /\ pc' = "pace"
  /\ UNCHANGED <<now, started, clockVars, diskVars, frame, frame_old, frame_new>>

\* The loop that waits for another frame, one look at the uptime at a time.
Pace ==
  /\ pc = "pace"
  /\ IF frame_old = frame_new
       THEN frame_new' = frame /\ UNCHANGED <<frame_old, pc>>
       ELSE frame_old' = frame_new /\ pc' = "paint" /\ UNCHANGED frame_new
  /\ UNCHANGED <<now, started, clockVars, diskVars, fb, ball, last, fast, frame, moves>>

\* Ten milliseconds pass, at any place of the loop.
Frame ==
  /\ pc \in {"paint", "key", "pace"} /\ frame < MaxFrames
  /\ frame' = frame + 1
  /\ UNCHANGED <<ioeVars, fb, ball, last, fast, frame_old, frame_new, moves>>

Driver == (Clock \/ TimerRtc \/ Disk) /\ UNCHANGED labVars

Next == Driver \/ Main \/ Paint \/ Key \/ Pace \/ Frame

Spec == Init /\ [][Next]_vars

-----------------------------------------------------------------------------
(* Properties                                                                *)

\* Whatever the speed, and the ball half or all beyond the edge, drawing never
\* leaves the frame buffer or runs on into another line: before the next frame
\* the screen shows the chequers with the ball where it was and where it is,
\* and the margin that the cells do not fill as it was.
PictureRight ==
  pc = "pace" =>
    fb = [i \in 0..(ScreenW * ScreenH - 1) |->
            LET x == i % ScreenW  y == i \div ScreenW
                Covers(b) == x - b.x \in 0..(Size - 1) /\ y - b.y \in 0..(Size - 1)
            IN IF Covers(ball) \/ Covers(last) THEN "ball"
               ELSE IF x >= Width \/ y >= Height THEN
                 IF fb[i] = "ball" THEN "ball" ELSE "off"
               ELSE IF (x \div CellW) % 2 = (y \div CellH) % 2 THEN "color1" ELSE "color2"]

\* The ball stays on its field as long as it has never been faster than the
\* field is wide.
BallInside ==
  fast \/ (ball.x \in 0..(Width - Size) /\ ball.y \in 0..(Height - Size))

\* The ball never takes more steps than frames have begun, however long
\* painting takes.
OneStepPerFrame == moves <= frame + 1

Lab0Safe == PictureRight /\ BallInside /\ OneStepPerFrame

\* The drivers at work for ioe_init and for other programs.
IoeSafe == EstimateRight /\ RtcSnapshot /\ DiskRight
=============================================================================
