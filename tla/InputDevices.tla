----------------------------- MODULE InputDevices -----------------------------
(***************************************************************************)
(* The virtual input devices of input_linux.go, as the pure part of them:  *)
(* what each device declares to the kernel when it is created, and which   *)
(* events each handler writes to which device for a message of the data    *)
(* channel.  uinput drops an event whose type or code its device did not   *)
(* declare, without an error, and hands on absolute values as they are, in *)
(* or out of the declared range.                                           *)
(*                                                                         *)
(* A message is a record of the fields the handler decodes from the bytes. *)
(* Codes are the numbers of the source.                                    *)
(***************************************************************************)
EXTENDS Integers, FiniteSets, Sequences

EV_KEY == 1
EV_REL == 2
EV_ABS == 3

REL_X == 0
REL_Y == 1
REL_HWHEEL == 6
REL_WHEEL == 8

ABS_X == 0
ABS_Y == 1
ABS_Z == 2
ABS_RX == 3
ABS_RY == 4
ABS_RZ == 5
ABS_HAT0X == 16
ABS_HAT0Y == 17

BTN_LEFT == \h110
BTN_RIGHT == \h111
BTN_MIDDLE == \h112
BTN_SIDE == \h113
BTN_EXTRA == \h114
BTN_TOUCH == \h14A

\* BTN_SOUTH, EAST, NORTH, WEST, TL, TR, SELECT, START, MODE, THUMBL, THUMBR
GamepadButtons ==
    {\h130, \h131, \h133, \h134, \h136, \h137, \h13A, \h13B, \h13C, \h13D, \h13E}

\* The bounds of the 16-bit fields.
MaxUint16 == 65535
MinInt16 == -32768
MaxInt16 == 32767

-----------------------------------------------------------------------------
\* What a device declares: its keys and buttons, its relative axes, and the
\* range of each absolute axis.
createKeyboard == [key |-> 1 .. 255, rel |-> {}, abs |-> <<>>]

createAbsPointer ==
    [key |-> {BTN_LEFT, BTN_RIGHT, BTN_MIDDLE, BTN_SIDE, BTN_EXTRA, BTN_TOUCH},
     rel |-> {},
     abs |-> [a \in {ABS_X, ABS_Y} |-> 0 .. MaxUint16]]

createScrollDevice ==
    [key |-> {}, rel |-> {REL_X, REL_Y, REL_WHEEL, REL_HWHEEL}, abs |-> <<>>]

createGamepad ==
    [key |-> GamepadButtons,
     rel |-> {},
     abs |-> [a \in {ABS_X, ABS_Y, ABS_RX, ABS_RY, ABS_Z, ABS_RZ, ABS_HAT0X, ABS_HAT0Y} |->
                IF a \in {ABS_Z, ABS_RZ} THEN 0 .. 255
                ELSE IF a \in {ABS_HAT0X, ABS_HAT0Y} THEN -1 .. 1
                ELSE MinInt16 .. MaxInt16]]

\* The kernel takes this event from this device, and its value is one the
\* device announced.
Declares(device, e) ==
    \/ e.type = EV_KEY /\ e.code \in device.key /\ e.value \in {0, 1}
    \/ e.type = EV_REL /\ e.code \in device.rel
    \/ e.type = EV_ABS /\ e.code \in DOMAIN device.abs /\ e.value \in device.abs[e.code]

-----------------------------------------------------------------------------
\* vkMap: the Linux code of a virtual-key code, from the alphabet and the
\* digits, the function keys, and the rest by hand.
Letters == <<30, 48, 46, 32, 18, 33, 34, 35, 23, 36, 37, 38, 50, 49, 24, 25,
             16, 19, 31, 20, 22, 47, 17, 45, 21, 44>>
KeysInRow == [n \in 1 .. 12 |-> 58 + n]      \* fault: F11 and F12 follow F10
FunctionKeys == [n \in 1 .. 12 |-> IF n <= 10 THEN 58 + n ELSE 76 + n]

OtherKeys ==
    {\* Backspace, Tab, Enter, Pause, CapsLock, Escape, Space
     <<\h08, 14>>, <<\h09, 15>>, <<\h0D, 28>>, <<\h13, 119>>, <<\h14, 58>>, <<\h1B, 1>>,
     <<\h20, 57>>,
     \* page up and down, end, home, the arrows, print screen, insert, delete
     <<\h21, 104>>, <<\h22, 109>>, <<\h23, 107>>, <<\h24, 102>>, <<\h25, 105>>, <<\h26, 103>>,
     <<\h27, 106>>, <<\h28, 108>>, <<\h2C, 99>>, <<\h2D, 110>>, <<\h2E, 111>>,
     \* 0, the Windows keys, the locks, and shift, control and alt, left and right
     <<\h30, 11>>, <<\h5B, 125>>, <<\h5C, 126>>, <<\h90, 69>>, <<\h91, 70>>,
     <<\hA0, 42>>, <<\hA1, 54>>, <<\hA2, 29>>, <<\hA3, 97>>, <<\hA4, 56>>, <<\hA5, 100>>,
     \* ; = , - . / `  and  [ \ ] '
     <<\hBA, 39>>, <<\hBB, 13>>, <<\hBC, 51>>, <<\hBD, 12>>, <<\hBE, 52>>, <<\hBF, 53>>,
     <<\hC0, 41>>, <<\hDB, 26>>, <<\hDC, 43>>, <<\hDD, 27>>, <<\hDE, 40>>}

vkMap ==
    [vk \in (\h31 .. \h39) \cup (\h41 .. \h5A) \cup (\h70 .. \h7B) \cup {k[1] : k \in OtherKeys} |->
       IF vk \in \h31 .. \h39 THEN vk - \h2F
       ELSE IF vk \in \h41 .. \h5A THEN Letters[vk - \h40]
       ELSE IF vk \in \h70 .. \h7B THEN FunctionKeys[vk - \h6F]
       ELSE (CHOOSE k \in OtherKeys : k[1] = vk)[2]]

vkToLinux(vk) == IF vk \in DOMAIN vkMap THEN vkMap[vk] ELSE 0

\* keyCodeToVK of the browser client: the virtual-key codes it sends, one for
\* each physical key it knows, and how many of those keys there are.
keyCodeToVK ==
    (\h41 .. \h5A) \cup (\h30 .. \h39) \cup (\h70 .. \h7B)
    \cup {\h08, \h09, \h0D, \h1B, \h20, \h14, \h90, \h91}
    \cup (\h21 .. \h28) \cup {\h2D, \h2E}
    \cup (\hBA .. \hC0) \cup (\hDB .. \hDE)
    \cup (\hA0 .. \hA5) \cup {\h5B, \h5C} \cup {\h2C, \h13}

-----------------------------------------------------------------------------
\* What a handler does: the device it writes to, and the events it writes.
Nothing == [device |-> "none", events |-> {}]
Write(device, events) == [device |-> device, events |-> events]
Event(type, code, value) == [type |-> type, code |-> code, value |-> value]

Pressed(b) == IF b THEN 1 ELSE 0
Sign(v) == IF v > 0 THEN 1 ELSE -1

\* int16(x) of a 16-bit field
int16(x) == IF x >= 32768 THEN x - 65536 ELSE x

HandleKeyboard(vk, pressed) ==
    LET linuxKey == vkToLinux(vk)
    IN  IF linuxKey = 0 THEN Nothing
        ELSE Write("keyboard", {Event(EV_KEY, linuxKey, Pressed(pressed))})

\* Absolute positions go to the pointer; relative motion goes to the scroll
\* device, because a device with both kinds of axes is taken for a mouse.
MoveOnPointer(absolute, x, y) ==      \* fault: relative motion on the pointer
    IF absolute
    THEN Write("pointer", {Event(EV_ABS, ABS_X, x), Event(EV_ABS, ABS_Y, y)})
    ELSE Write("pointer", {Event(EV_REL, REL_X, int16(x)), Event(EV_REL, REL_Y, int16(y))})
HandleMouseMove(absolute, x, y) ==
    IF absolute
    THEN Write("pointer", {Event(EV_ABS, ABS_X, x), Event(EV_ABS, ABS_Y, y)})
    ELSE Write("scroll", {Event(EV_REL, REL_X, int16(x)), Event(EV_REL, REL_Y, int16(y))})

MouseButtons == <<BTN_LEFT, BTN_MIDDLE, BTN_RIGHT, BTN_SIDE, BTN_EXTRA>>

HandleMouseButton(button, pressed) ==
    IF button + 1 \notin DOMAIN MouseButtons THEN Nothing
    ELSE Write("pointer", {Event(EV_KEY, MouseButtons[button + 1], Pressed(pressed))})

\* A wheel event is one notch, whatever the browser's delta was.
HandleMouseScroll(dx, dy) ==
    Write("scroll",
          (IF dy = 0 THEN {} ELSE {Event(EV_REL, REL_WHEEL, Sign(int16(dy)))})
          \cup (IF dx = 0 THEN {} ELSE {Event(EV_REL, REL_HWHEEL, Sign(int16(dx)))}))

\* The face buttons, bumpers, back, start and stick buttons; buttons 6 and 7
\* are the triggers, which come as values of their own, and 12 to 15 the
\* d-pad, which is two hat axes: up before down, left before right.
btnMaps ==
    [b \in (0 .. 5) \cup (8 .. 11) |->
       IF b <= 5 THEN <<\h130, \h131, \h133, \h134, \h136, \h137>>[b + 1]
       ELSE <<\h13A, \h13B, \h13D, \h13E>>[b - 7]]

Hat(minus, plus) == IF minus THEN -1 ELSE IF plus THEN 1 ELSE 0

\* sticks is <<lx, ly, rx, ry>> and triggers <<lt, rt>>, as 16 and 8 bits.
HandleGamepad(buttons, sticks, triggers) ==
    Write("gamepad",
          {Event(EV_ABS, ABS_X, int16(sticks[1])), Event(EV_ABS, ABS_Y, int16(sticks[2])),
           Event(EV_ABS, ABS_RX, int16(sticks[3])), Event(EV_ABS, ABS_RY, int16(sticks[4])),
           Event(EV_ABS, ABS_Z, triggers[1]), Event(EV_ABS, ABS_RZ, triggers[2]),
           Event(EV_ABS, ABS_HAT0X, Hat(14 \in buttons, 15 \in buttons)),
           Event(EV_ABS, ABS_HAT0Y, Hat(12 \in buttons, 13 \in buttons))}
          \cup {Event(EV_KEY, btnMaps[b], Pressed(b \in buttons)) : b \in DOMAIN btnMaps})

-----------------------------------------------------------------------------
\* The values at the boundaries of a 16-bit and of an 8-bit field; no button of
\* a gamepad, all of them, and any single one.
Words == {0, 1, 32767, 32768, 65535}
Bytes == {0, 1, 4, 5, 128, 255}
Held == {{}, 0 .. 15} \cup {{b} : b \in 0 .. 15}

\* Every answer of the handlers, for any key, over messages with those values.
KeyWrites == {HandleKeyboard(vk, b) : vk \in 0 .. 255, b \in BOOLEAN}
MouseWrites ==
    {HandleMouseMove(a, x, y) : a \in BOOLEAN, x \in Words, y \in Words}
    \cup {HandleMouseButton(n, b) : n \in Bytes, b \in BOOLEAN}
    \cup {HandleMouseScroll(x, y) : x \in Words, y \in Words}
PadWrites ==
    {HandleGamepad(bs, <<x, y, y, x>>, <<t, u>>) :
        bs \in Held, x \in Words, y \in Words, t \in Bytes, u \in Bytes}

Device(name) ==
    CASE name = "keyboard" -> createKeyboard
      [] name = "pointer" -> createAbsPointer
      [] name = "scroll" -> createScrollDevice
      [] name = "gamepad" -> createGamepad

Declared(writes) == \A w \in writes : \A e \in w.events : Declares(Device(w.device), e)

\* The three tables as they stand, evaluated once.
DesktopWritesDeclared == Declared(KeyWrites \cup MouseWrites)
PadWritesDeclared == Declared(PadWrites)
KeyTablesAgree ==
    /\ keyCodeToVK \subseteq DOMAIN vkMap
    /\ \A vk \in keyCodeToVK : vkMap[vk] \in createKeyboard.key
    /\ Cardinality({vkMap[vk] : vk \in keyCodeToVK}) = Cardinality(keyCodeToVK)
=============================================================================
