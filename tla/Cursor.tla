------------------------------- MODULE Cursor -------------------------------
(***************************************************************************)
(* The hardware cursor: DxgkDdiSetPointerShape and SetPointerPosition, the *)
(* VidPnOutput they reach, its frame buffer and the conversions of the     *)
(* three pointer formats into it, and the cursor plane of the host.        *)
(*                                                                         *)
(* A call visits the targets of its source one after the other, each under *)
(* that output's lock.  Control requests block and may fail; what the host *)
(* shows changes when it takes a command from the cursor queue, and it then*)
(* copies the pixels of the resource, not of the guest's memory.           *)
(***************************************************************************)
EXTENDS Integers, Sequences, SequencesExt, FiniteSets

CONSTANTS
    None,
    Outputs,        \* scanouts
    Threads,        \* threads of dxgkrnl that call
    Ids,            \* resource ids
    Width, Height,  \* size of a frame buffer, 64 x 64 in the code
    Mode,           \* size of the current mode, <<width, height>>
    Shapes,         \* pointer shapes: kind, w, h, hot spot, pixels
    Points,         \* positions
    Worlds          \* bounds, one of which a behaviour starts with: targets of the
                    \* source in order, calls, control requests that fail

Empty == "empty"    \* stands for the empty cursor among the targets

CursorAssumption ==
    /\ Width \in Nat \ {0} /\ Height \in Nat \ {0}
    /\ \A w \in Worlds : ToSet(w.targets) \subseteq Outputs /\ w.calls \in Nat /\ w.faults \in Nat
    /\ \A s \in Shapes : s.w \in 1 .. Width /\ s.h \in 1 .. Height

VARIABLES
    cursor,     \* VidPnOutput.cursor by target: None or id, hotspot, position, hidden
    pixels,     \* Framebuffer.pixels by resource id, bytes in memory
    lock,       \* the thread that holds an output's SpinMutex
    call,       \* the call of a thread: op, argument, targets left, step
    free,       \* resource ids the driver may hand out
    content,    \* host: pixels of a resource, None without one
    plane,      \* host: cursor plane of a target
    cursorq,    \* commands in the cursor queue
    world,      \* targets of the source, calls and faults left
    faulty,     \* history: a request has failed
    want        \* history: what a target was last asked to show

drv == <<cursor, pixels, lock, free>>
vars == <<cursor, pixels, lock, call, free, content, plane, cursorq, world, faulty, want>>

-----------------------------------------------------------------------------
(********************************** pixels *********************************)

Rows == 0 .. Height - 1
Cols == 0 .. Width - 1
Blank == [y \in Rows |-> [x \in Cols |-> <<0, 0, 0, 0>>]]

\* Pixel values; a u32 with alpha in the top byte, then red, green and blue.
Pixel(a, r, g, b) == [a |-> a, r |-> r, g |-> g, b |-> b]
TRANSPARENT == Pixel(0, 0, 0, 0)
INVERTED == Pixel(128, 0, 0, 0)
Opaque(r, g, b) == Pixel(255, r, g, b)
Background == Opaque(0, 0, 0)
Foreground == Opaque(255, 255, 255)

\* BGRA::from and back: the fields lie in memory in the order b, r, g, a.
BGRA(p) == <<p.b, p.r, p.g, p.a>>
FromBGRA(m) == [b |-> m[1], r |-> m[2], g |-> m[3], a |-> m[4]]

\* What the host makes of the bytes, the format being B8G8R8A8UNORM.
HostPixel(m) == [b |-> m[1], g |-> m[2], r |-> m[3], a |-> m[4]]

\* write_bgra copies the rows; what lies outside them stays.
WriteBgra(buf, s) ==
    [y \in Rows |-> [x \in Cols |-> IF y < s.h /\ x < s.w THEN s.px[y][x] ELSE buf[y][x]]]

\* The passes of write_mono and write_masked_color over w x h pixels.
Fill(s, P(_)) ==
    [y \in Rows |-> [x \in Cols |-> IF y < s.h /\ x < s.w THEN BGRA(P(s.px[y][x])) ELSE <<0, 0, 0, 0>>]]

\* Mutant: the row above is not looked at.
NeighborsBelow(s, y, x) ==
    {n \in {<<y, x - 1>>, <<y, x + 1>>, <<y + 1, x>>} : n[1] \in 0 .. s.h - 1 /\ n[2] \in 0 .. s.w - 1}

Neighbors(s, y, x) ==
    {n \in {<<y, x - 1>>, <<y, x + 1>>, <<y - 1, x>>, <<y + 1, x>>} :
        n[1] \in 0 .. s.h - 1 /\ n[2] \in 0 .. s.w - 1}

Outline(buf, s) ==
    [y \in Rows |-> [x \in Cols |->
        IF /\ y < s.h /\ x < s.w /\ FromBGRA(buf[y][x]) = TRANSPARENT
           /\ \E n \in Neighbors(s, y, x) : FromBGRA(buf[n[1]][n[2]]) = INVERTED
        THEN BGRA(Background) ELSE buf[y][x]]]

Replace(buf, p) ==
    [y \in Rows |-> [x \in Cols |-> IF FromBGRA(buf[y][x]) = INVERTED THEN BGRA(p) ELSE buf[y][x]]]

HasInverted(buf) == \E y \in Rows, x \in Cols : FromBGRA(buf[y][x]) = INVERTED

MonoPixel(v) ==
    CASE v = <<1, 1>> -> INVERTED [] v = <<1, 0>> -> TRANSPARENT
      [] v = <<0, 1>> -> Foreground [] v = <<0, 0>> -> Background

WriteMono(s) ==
    LET buf == Fill(s, MonoPixel)
    IN  IF HasInverted(buf) THEN Replace(Outline(buf, s), Foreground) ELSE buf

MaskedPixel(v) == IF v[4] = 0 THEN Opaque(v[3], v[2], v[1]) ELSE INVERTED

WriteMaskedColor(s) ==
    LET buf == Fill(s, MaskedPixel)
    IN  IF HasInverted(buf) THEN Replace(Outline(buf, s), TRANSPARENT) ELSE buf

-----------------------------------------------------------------------------
(***************************** control requests ****************************)

\* A blocking request that fails was refused by the host, or ran into the timeout
\* and may have been carried out.
Fails == world.faults > 0 /\ world' = [world EXCEPT !.faults = @ - 1] /\ faulty' = TRUE
Works == UNCHANGED <<world, faulty>>

Step(t, pc) == call' = [call EXCEPT ![t].pc = pc]

\* The call ends, with an error also before all targets are done.
Return(t) == call' = [call EXCEPT ![t] = None]
NextTarget(t) ==
    call' = [call EXCEPT ![t] = IF Len(@.todo) = 1 THEN None ELSE [@ EXCEPT !.todo = Tail(@), !.pc = "lock"]]
Unlock(o) == lock' = [lock EXCEPT ![o] = None]

Give(o, c) == cursor' = [cursor EXCEPT ![o] = c]

\* resource_create_2d: a refusal gives the id back, a timeout does not.
ResourceCreate2D(t, id) ==
    /\ id \in free
    /\ \/ /\ Works /\ free' = free \ {id} /\ content' = [content EXCEPT ![id] = Blank]
          /\ pixels' = [pixels EXCEPT ![id] = Blank]
          /\ call' = [call EXCEPT ![t].pc = "attach", ![t].id = id] /\ UNCHANGED lock
       \/ /\ Fails /\ UNCHANGED <<content, pixels, free>> /\ Return(t) /\ Unlock(Head(call[t].todo))
       \/ /\ Fails /\ free' = free \ {id} /\ content' \in {content, [content EXCEPT ![id] = Blank]}
          /\ UNCHANGED pixels /\ Return(t) /\ Unlock(Head(call[t].todo))
    /\ UNCHANGED <<cursor, plane, cursorq, want>>

\* attach_backing_box and submit_command_sync; on an error the resource stays behind.
AttachBackingBox(t) ==
    /\ \/ Works /\ Step(t, "first transfer") /\ UNCHANGED lock
       \/ Fails /\ Return(t) /\ Unlock(Head(call[t].todo))
    /\ UNCHANGED <<cursor, pixels, free, content, plane, cursorq, want>>

\* resource_transfer_to_host_2d: a refusal frees the id, in use or not.
TransferToHost(t, id, pc) ==
    \/ /\ Works /\ content' = [content EXCEPT ![id] = pixels[id]] /\ Step(t, pc) /\ UNCHANGED <<free, lock>>
    \/ /\ Fails /\ free' = free \union {id} /\ UNCHANGED content /\ Return(t) /\ Unlock(Head(call[t].todo))
    \/ /\ Fails /\ content' \in {content, [content EXCEPT ![id] = pixels[id]]} /\ UNCHANGED free
       /\ Return(t) /\ Unlock(Head(call[t].todo))

\* Cursor::try_new once its Framebuffer is there.  set_pointer_shape hands its hot
\* spot over as (y_hot, x_hot), and here they are swapped back.
TryNew(t) ==
    LET c == call[t]
        o == Head(c.todo)
    IN  /\ c.pc = "first transfer"
        /\ TransferToHost(t, c.id, IF c.op = "move" THEN "made" ELSE "write")
        /\ IF call'[t] = None THEN UNCHANGED cursor
             ELSE Give(o, [id |-> c.id, hidden |-> FALSE,
                           hot |-> IF c.op = "move" THEN <<0, 0>> ELSE c.arg.hot,
                           pos |-> IF c.op = "move" THEN c.pos ELSE <<0, 0>>])
        /\ UNCHANGED <<pixels, plane, cursorq, want>>

-----------------------------------------------------------------------------
(********************************* the calls *******************************)

Clamp(p) ==
    <<IF p[1] < 0 THEN 0 ELSE IF p[1] > Mode[1] THEN Mode[1] ELSE p[1],
      IF p[2] < 0 THEN 0 ELSE IF p[2] > Mode[2] THEN Mode[2] ELSE p[2]>>

MoveCursor(o, p) == [op |-> "move", target |-> o, pos |-> p]
UpdateCursor(o, id, hot, p) == [op |-> "update", target |-> o, id |-> id, hot |-> hot, pos |-> p]
Send(cmd) == cursorq' = Append(cursorq, cmd)

Want(o, w) == want' = [want EXCEPT ![o] = w]

Begin(t, op, arg, p) ==
    /\ call[t] = None /\ world.calls > 0 /\ world' = [world EXCEPT !.calls = @ - 1]
    /\ call' = [call EXCEPT ![t] = [op |-> op, arg |-> arg, pos |-> p, todo |-> world.targets, pc |-> "lock", id |-> None]]
    /\ UNCHANGED <<drv, content, plane, cursorq, faulty, want>>

SetPointerPosition(t) ==
    \/ \E p \in Points : Begin(t, "move", None, Clamp(p))
    \/ Begin(t, "hide", None, None)

SetPointerShape(t) == \E s \in Shapes : Begin(t, "shape", s, None)

Locked(t, op) ==
    /\ call[t] # None /\ call[t].pc = "lock" /\ call[t].op = op /\ lock[Head(call[t].todo)] = None

\* hide_cursor shows the empty cursor.
Hide(t) ==
    LET o == Head(call[t].todo)
        c == IF cursor[o] = None THEN cursor[Empty] ELSE cursor[o]
    IN  /\ Locked(t, "hide")
        /\ IF cursor[o] = None THEN UNCHANGED cursor ELSE Give(o, [c EXCEPT !.hidden = TRUE])
        /\ Send(UpdateCursor(o, cursor[Empty].id, c.hot, c.pos))
        /\ Want(o, [want[o] EXCEPT !.visible = FALSE])
        /\ NextTarget(t)
        /\ UNCHANGED <<pixels, lock, free, content, plane, world, faulty>>

\* Mutant: a hidden cursor is moved like a visible one.
MoveShownAlways(o, c, p) == Send(MoveCursor(o, p))

\* A hidden cursor is shown again by an update, a visible one is moved.
MoveShown(o, c, p) ==
    IF c.hidden THEN Send(UpdateCursor(o, c.id, c.hot, p)) ELSE Send(MoveCursor(o, p))

\* move_cursor of an output; without a cursor a blank one is made, and not shown.
Move(t) ==
    LET o == Head(call[t].todo)
        c == cursor[o]
        p == call[t].pos
    IN  /\ Locked(t, "move")
        /\ \/ /\ c # None
              /\ Give(o, [c EXCEPT !.pos = p, !.hidden = FALSE]) /\ MoveShown(o, c, p)
              /\ Want(o, [want[o] EXCEPT !.visible = TRUE, !.pos = p]) /\ NextTarget(t) /\ UNCHANGED lock
           \/ /\ c = None
              /\ lock' = [lock EXCEPT ![o] = t] /\ Step(t, "create") /\ UNCHANGED <<cursor, cursorq, want>>
        /\ UNCHANGED <<pixels, free, content, plane, world, faulty>>

Made(t) ==
    /\ call[t] # None /\ call[t].pc = "made"
    /\ Want(Head(call[t].todo), [want[Head(call[t].todo)] EXCEPT !.pos = call[t].pos])
    /\ Unlock(Head(call[t].todo)) /\ NextTarget(t)
    /\ UNCHANGED <<cursor, pixels, free, content, plane, cursorq, world, faulty>>

\* update_cursor_bgra, _mono and _masked_color begin: with a cursor only its hot
\* spot changes, and the two numbers change places.
Shape(t) ==
    LET o == Head(call[t].todo)
    IN  /\ Locked(t, "shape") /\ lock' = [lock EXCEPT ![o] = t]
        /\ \/ /\ cursor[o] = None /\ Step(t, "create") /\ UNCHANGED cursor
           \/ /\ cursor[o] # None /\ Step(t, "write")
              /\ Give(o, [cursor[o] EXCEPT !.hot = <<call[t].arg.hot[2], call[t].arg.hot[1]>>])
        /\ UNCHANGED <<pixels, free, content, plane, cursorq, world, faulty, want>>

Create(t) ==
    /\ call[t] # None /\ call[t].pc = "create"
    /\ \/ \E id \in free : ResourceCreate2D(t, id)
       \/ /\ free = {} /\ Return(t) /\ Unlock(Head(call[t].todo))
          /\ UNCHANGED <<cursor, pixels, free, content, plane, cursorq, world, faulty, want>>

Attach(t) == call[t] # None /\ call[t].pc = "attach" /\ AttachBackingBox(t)
Make(t) == call[t] # None /\ TryNew(t)

Write(t) ==
    LET s == call[t].arg
        id == cursor[Head(call[t].todo)].id
    IN  /\ call[t] # None /\ call[t].pc = "write"
        /\ pixels' = [pixels EXCEPT ![id] =
                         CASE s.kind = "bgra" -> WriteBgra(@, s) [] s.kind = "mono" -> WriteMono(s)
                           [] s.kind = "masked" -> WriteMaskedColor(s)]
        /\ Step(t, "transfer")
        /\ UNCHANGED <<cursor, lock, free, content, plane, cursorq, world, faulty, want>>

TransferPixels(t) ==
    /\ call[t] # None /\ call[t].pc = "transfer"
    /\ TransferToHost(t, cursor[Head(call[t].todo)].id, "update")
    /\ UNCHANGED <<cursor, pixels, plane, cursorq, want>>

\* Mutant: the cursor is put at the origin of the screen.
UpdateOrigin(o, c) == UpdateCursor(o, c.id, c.hot, <<0, 0>>)

Update(o, c) == UpdateCursor(o, c.id, c.hot, c.pos)

ShowShape(t) ==
    LET o == Head(call[t].todo)
    IN  /\ call[t] # None /\ call[t].pc = "update"
        /\ Send(Update(o, cursor[o]))
        /\ Want(o, [visible |-> TRUE, pos |-> cursor[o].pos, shape |-> call[t].arg])
        /\ Unlock(o) /\ NextTarget(t)
        /\ UNCHANGED <<cursor, pixels, free, content, plane, world, faulty>>

-----------------------------------------------------------------------------
(********************************* the host ********************************)

\* The device executes the next cursor command; it copies the resource's pixels.
HostCursor ==
    LET cmd == Head(cursorq)
        o == cmd.target
    IN  /\ cursorq # <<>> /\ cursorq' = Tail(cursorq)
        /\ plane' = [plane EXCEPT ![o] =
               CASE cmd.op = "move" -> [@ EXCEPT !.pos = cmd.pos]
                 [] cmd.op = "update" /\ content[cmd.id] # None ->
                        [image |-> content[cmd.id], hot |-> cmd.hot, pos |-> cmd.pos]
                 [] OTHER -> @]
        /\ UNCHANGED <<drv, call, content, world, faulty, want>>

\* start() has made the empty cursor.
Init ==
    \E id \in Ids :
        /\ cursor = [o \in Outputs \union {Empty} |->
                        IF o = Empty THEN [id |-> id, hot |-> <<0, 0>>, pos |-> <<0, 0>>, hidden |-> FALSE] ELSE None]
        /\ free = Ids \ {id} /\ content = [i \in Ids |-> IF i = id THEN Blank ELSE None]
        /\ id = CHOOSE i \in Ids : TRUE
        /\ pixels = [i \in Ids |-> Blank] /\ lock = [o \in Outputs |-> None]
        /\ call = [t \in Threads |-> None] /\ cursorq = <<>> /\ world \in Worlds /\ faulty = FALSE
        /\ plane = [o \in Outputs |-> [image |-> Blank, hot |-> <<0, 0>>, pos |-> <<0, 0>>]]
        /\ want = [o \in Outputs |-> [visible |-> FALSE, pos |-> <<0, 0>>, shape |-> None]]

Next ==
    \/ \E t \in Threads : SetPointerPosition(t)
    \/ \E t \in Threads : SetPointerShape(t)
    \/ \E t \in Threads : Hide(t)
    \/ \E t \in Threads : Move(t)
    \/ \E t \in Threads : Made(t)
    \/ \E t \in Threads : Shape(t)
    \/ \E t \in Threads : Create(t)
    \/ \E t \in Threads : Attach(t)
    \/ \E t \in Threads : Make(t)
    \/ \E t \in Threads : Write(t)
    \/ \E t \in Threads : TransferPixels(t)
    \/ \E t \in Threads : ShowShape(t)
    \/ HostCursor

Spec == Init /\ [][Next]_vars

-----------------------------------------------------------------------------
(******************************** properties *******************************)

Quiet == cursorq = <<>> /\ ~faulty /\ \A t \in Threads : call[t] = None

InShape(s, y, x) == y < s.h /\ x < s.w

\* A monochrome pointer: inverted pixels become white, with a black line around
\* them where the pointer was transparent.
MonoShown(s, y, x) ==
    CASE s.px[y][x] \in {<<1, 1>>, <<0, 1>>} -> Foreground
      [] s.px[y][x] = <<0, 0>> -> Background
      [] OTHER -> IF \E j \in 0 .. s.h - 1, i \in 0 .. s.w - 1 :
                        s.px[j][i] = <<1, 1>> /\ (j - y) * (j - y) + (i - x) * (i - x) = 1
                  THEN Background ELSE TRANSPARENT

\* The image of a shape on the host.  Red and green of a masked pointer are left
\* out, and so is what a smaller colour pointer leaves of the one before it.
ShapeShown(s, image) ==
    \A y \in Rows, x \in Cols :
        LET p == HostPixel(image[y][x])
        IN  CASE ~InShape(s, y, x) -> s.kind = "bgra" \/ p = TRANSPARENT
              [] s.kind = "bgra" -> image[y][x] = s.px[y][x]
              [] s.kind = "mono" -> p = MonoShown(s, y, x)
              [] s.kind = "masked" -> IF s.px[y][x][4] = 0 THEN p.a = 255 /\ p.b = s.px[y][x][1] ELSE p.a = 0

\* Once all calls have returned and the host has emptied the cursor queue, every
\* target shows the pointer it was last given, where it was last put and clamped
\* to the mode, and nothing after it was hidden, whatever two threads and the host
\* did meanwhile (VidPnOutput's lock, hidden flag and frame buffer; write_mono,
\* write_masked_color).
CursorShown ==
    Quiet =>
        \A o \in Outputs :
            IF want[o].visible
            THEN want[o].shape # None => plane[o].pos = want[o].pos /\ ShapeShown(want[o].shape, plane[o].image)
            ELSE plane[o].image = Blank
=============================================================================
