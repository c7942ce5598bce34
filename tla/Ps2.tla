-------------------------------- MODULE Ps2 ---------------------------------
(***************************************************************************)
(* The PS/2 controller shared by the keyboard poll of the kernel           *)
(* (drivers/keyboard.rs, under LOCK) and the mouse driver, a process       *)
(* (userspace/drivers/ps2mouse.rs) on another CPU.  Both read the status   *)
(* port and then the data port, and each pair of reads can interleave with *)
(* the other's.  One step is one port access, or the commands of one       *)
(* function.                                                               *)
(*                                                                         *)
(* The controller and the two devices are external.  The controller hands  *)
(* out the bytes of both devices in the order they came in; the status     *)
(* says whose the first one is.                                            *)
(***************************************************************************)
EXTENDS Integers, SequencesExt

CONSTANTS
    Ps2Keys,        \* keys of the keyboard, a subset of those in Codes
    MaxStrokes,     \* bound on keys pressed and released
    MaxPackets,     \* bound on movements of the mouse
    MaxLoads,       \* bound on loads of the driver
    QueueCap,       \* bytes the controller holds
    DrainMax        \* reads of one drain, 16 in the code

ASSUME Ps2Assumption ==
    /\ {MaxStrokes, MaxPackets, MaxLoads, QueueCap, DrainMax} \subseteq Nat

VARIABLES
    queue,      \* bytes the controller holds: [from, data]
    wire,       \* bytes each device has yet to send
    aux,        \* the mouse port is enabled
    streaming,  \* the mouse reports movements
    packets,    \* movements so far
    strokes,    \* keys pressed and released so far
    held,       \* the keys that are down
    due,        \* what the keys pressed mean and poll has not pushed yet
    poll,       \* keyboard.rs: "idle", or "read" after a status with a key byte
    decoder,    \* EXTENDED, SHIFT, CTRL
    wrong,      \* poll pushed something else to the text stream
    driver,     \* ps2mouse.rs: where it is, reads in a drain, PKT, and whether kdm_run
                \* read nothing yet, only packets from the beginning of one, or else
    torn,       \* send_event sent something that is not a packet of the mouse
    loads,      \* loads of the driver so far
    twins,      \* two keys of one modifier were held together
    stolen      \* the drain of kdm_init took a byte of the keyboard

keyVars == <<strokes, held, due, twins>>

pollVars == <<poll, decoder, wrong>>

mouseVars == <<driver, torn, loads, aux, streaming>>

ps2Vars == <<queue, wire, packets, keyVars, pollVars, mouseVars, stolen>>

Unloaded == [pc |-> "none", reads |-> 0, pkt |-> <<>>, sync |-> "fresh"]

Ps2Init ==
    /\ queue = <<>> /\ wire = [keyboard |-> <<>>, mouse |-> <<>>] /\ packets = 0
    /\ strokes = 0 /\ held = {} /\ due = <<>> /\ twins = FALSE
    /\ poll = "idle" /\ decoder = [ext |-> FALSE, shift |-> FALSE, ctrl |-> FALSE] /\ wrong = FALSE
    /\ driver = Unloaded /\ torn = FALSE
    /\ loads = 0 /\ aux = FALSE /\ streaming = FALSE
    /\ stolen = FALSE

-----------------------------------------------------------------------------
(* The keyboard, the mouse and the controller.  A device makes its next    *)
(* bytes when it has sent the last.                                        *)

\* Scan codes: an arrow is prefixed, and without the prefix it is a digit.
Codes == [a |-> <<"a">>, left |-> <<"E0", "left">>, lshift |-> <<"lshift">>,
          rshift |-> <<"rshift">>, ctrl |-> <<"ctrl">>]

Byte(code, down) == [code |-> code, down |-> down]

Shifts == {"lshift", "rshift"}

\* What a key pressed means while the keys in H are down
Meaning(k, H) ==
    CASE k = "left" -> <<"left">>
      [] k = "a" -> IF "ctrl" \in H THEN <<"ctrl+a">> ELSE IF H \cap Shifts # {} THEN <<"A">> ELSE <<"a">>
      [] OTHER -> <<>>

Stroke(k, down) ==
    /\ strokes < MaxStrokes /\ (k \in held) # down /\ wire.keyboard = <<>>
    /\ strokes' = strokes + 1
    /\ held' = IF down THEN held \cup {k} ELSE held \ {k}
    /\ due' = IF down THEN due \o Meaning(k, held) ELSE due
    /\ twins' = (twins \/ Shifts \subseteq held')
    /\ wire' = [wire EXCEPT !.keyboard =
            [i \in DOMAIN Codes[k] |-> Byte(Codes[k][i], down \/ Codes[k][i] = "E0")]]
    /\ UNCHANGED <<queue, packets, pollVars, mouseVars, stolen>>

\* A byte of a packet; of the second and the third, bit 3 may be set or not.
PacketByte(n, i, bit3) == [packet |-> n, i |-> i, bit3 |-> bit3]

Ack == PacketByte(0, 0, TRUE)       \* 0xFA

MouseMoves(bit3) ==
    /\ streaming /\ packets < MaxPackets /\ wire.mouse = <<>>
    /\ packets' = packets + 1
    /\ wire' = [wire EXCEPT !.mouse =
            <<PacketByte(packets', 1, TRUE), PacketByte(packets', 2, bit3), PacketByte(packets', 3, bit3)>>]
    /\ UNCHANGED <<queue, keyVars, pollVars, mouseVars, stolen>>

ByteIn(dev) ==
    /\ wire[dev] # <<>> /\ Len(queue) < QueueCap
    /\ dev = "mouse" => aux
    /\ queue' = Append(queue, [from |-> dev, data |-> Head(wire[dev])])
    /\ wire' = [wire EXCEPT ![dev] = Tail(@)]
    /\ UNCHANGED <<packets, keyVars, pollVars, mouseVars, stolen>>

\* inb(0x64): output buffer full, and whose byte comes first
Pending(dev) == queue # <<>> /\ queue[1].from = dev

-----------------------------------------------------------------------------
(* keyboard.rs: poll.                                                      *)

\* A byte of the mouse at the head is left for the mouse.
PollStatusAny ==
    /\ poll = "idle" /\ queue # <<>>
    /\ poll' = "read"
    /\ UNCHANGED <<queue, wire, packets, keyVars, decoder, wrong, mouseVars, stolen>>

PollStatus ==
    /\ poll = "idle" /\ Pending("keyboard")
    /\ poll' = "read"
    /\ UNCHANGED <<queue, wire, packets, keyVars, decoder, wrong, mouseVars, stolen>>

\* What an ordinary key pressed puts into the text stream
PlainKey(code, d) ==
    CASE d.ctrl -> IF code = "a" THEN <<"ctrl+a">> ELSE <<>>
      [] ~d.ctrl /\ code = "a" -> IF d.shift THEN <<"A">> ELSE <<"a">>
      [] OTHER -> <<"4">>

ModifierOf(code) == CASE code \in {"lshift", "rshift"} -> "shift"
                      [] code = "ctrl" -> "ctrl"
                      [] OTHER -> "none"

\* What poll pushes for one scan code: nothing for the prefix, a modifier or a
\* release; after the prefix only the arrows are known.
Pushed(b) ==
    CASE ~b.down \/ b.code = "E0" \/ ModifierOf(b.code) # "none" -> <<>>
      [] decoder.ext -> IF b.code = "left" THEN <<"left">> ELSE <<>>
      [] OTHER -> PlainKey(b.code, decoder)

\* After the prefix the left and right Shift keys are unknown too.
Decode(b) ==
    LET m == IF b.code = "E0" \/ (decoder.ext /\ b.code \in Shifts) THEN "none" ELSE ModifierOf(b.code)
        out == Pushed(b)
    IN  /\ decoder' = [shift |-> IF m = "shift" THEN b.down ELSE decoder.shift,
                       ctrl |-> IF m = "ctrl" THEN b.down ELSE decoder.ctrl,
                       ext |-> b.code = "E0"]
        /\ due' = IF IsPrefix(out, due) THEN SubSeq(due, Len(out) + 1, Len(due)) ELSE due
        /\ wrong' = (wrong \/ ~IsPrefix(out, due))

\* inb(0x60): whatever comes first by now.  A byte of the mouse, or what an
\* empty controller answers, decodes to something or to nothing.
PollRead ==
    /\ poll = "read"
    /\ poll' = "idle"
    /\ queue' = IF queue = <<>> THEN queue ELSE Tail(queue)
    /\ IF Pending("keyboard") THEN Decode(queue[1].data)
       ELSE \E code \in {"E0", "a"} : Decode(Byte(code, TRUE))
    /\ UNCHANGED <<wire, packets, strokes, held, twins, mouseVars, stolen>>

-----------------------------------------------------------------------------
(* ps2mouse.rs.                                                            *)

DriverAt(pc) == driver.pc = pc

Quiet == UNCHANGED <<packets, keyVars, pollVars>>

\* kdm_init: enable the port, reset, start streaming; the mouse acknowledges both.
KdmInit ==
    /\ DriverAt("none") /\ loads < MaxLoads
    /\ loads' = loads + 1
    /\ aux' = TRUE /\ streaming' = TRUE
    /\ wire' = [wire EXCEPT !.mouse = @ \o <<Ack, Ack>>]
    /\ driver' = [Unloaded EXCEPT !.pc = "drain"]
    /\ UNCHANGED <<queue, torn, stolen>> /\ Quiet

\* The drain of kdm_init does not look whose byte it takes.
InitDrain ==
    /\ DriverAt("drain")
    /\ driver' = IF queue # <<>> /\ driver.reads < DrainMax
                 THEN [driver EXCEPT !.pc = "drainread"]
                 ELSE [driver EXCEPT !.pc = "run", !.reads = 0]
    /\ UNCHANGED <<queue, wire, torn, loads, aux, streaming, stolen>> /\ Quiet

InitDrainRead ==
    /\ DriverAt("drainread")
    /\ driver' = [driver EXCEPT !.pc = "drain", !.reads = @ + 1]
    /\ queue' = IF queue = <<>> THEN queue ELSE Tail(queue)
    /\ stolen' = (stolen \/ Pending("keyboard"))
    /\ UNCHANGED <<wire, torn, loads, aux, streaming>> /\ Quiet

\* kdm_run, at a tick: a byte of the mouse at the head is read ...
RunStatus ==
    /\ DriverAt("run") /\ Pending("mouse")
    /\ driver' = [driver EXCEPT !.pc = "runread"]
    /\ UNCHANGED <<queue, wire, torn, loads, aux, streaming, stolen>> /\ Quiet

\* ... and fed to feed_byte, which starts a packet only with a byte that has bit 3.
FeedByte(data) ==
    IF driver.pkt = <<>> /\ ~data.bit3 THEN <<>> ELSE Append(driver.pkt, data)

\* The three bytes of one movement
IsPacket(pkt) == \A i \in 1 .. 3 : pkt[i].packet = pkt[1].packet /\ pkt[i].i = i

\* Bytes that do not belong to one packet are not told apart.
RunRead ==
    LET data == IF Pending("mouse") THEN queue[1].data ELSE PacketByte(0, 0, FALSE)
        pkt == FeedByte(data)
        whole == Len(pkt) = 3
        sync == \/ driver.sync = "fresh" /\ data.i = 1
                \/ driver.sync = "packets" /\ data.packet # 0
    IN  /\ DriverAt("runread")
        /\ queue' = IF queue = <<>> THEN queue ELSE Tail(queue)
        /\ driver' = [driver EXCEPT
                !.pc = "run", !.sync = IF sync THEN "packets" ELSE "lost",
                !.pkt = IF whole THEN <<>> ELSE IF sync THEN pkt ELSE [i \in DOMAIN pkt |-> Ack]]
        /\ torn' = (torn \/ (sync /\ whole /\ ~IsPacket(pkt)))
        /\ UNCHANGED <<wire, loads, aux, streaming, stolen>> /\ Quiet

\* A request to stop, or the end of a driver that is killed.
KdmExit ==
    /\ DriverAt("run")
    /\ streaming' = FALSE
    /\ wire' = [wire EXCEPT !.mouse = Append(@, Ack)]
    /\ driver' = [Unloaded EXCEPT !.pc = "exit"]
    /\ UNCHANGED <<queue, torn, loads, aux, stolen>> /\ Quiet

DriverDies ==
    /\ DriverAt("run")
    /\ driver' = Unloaded
    /\ UNCHANGED <<queue, wire, torn, loads, aux, streaming, stolen>> /\ Quiet

\* The drain of kdm_exit stops at a byte of the keyboard.
ExitDrain ==
    /\ DriverAt("exit")
    /\ driver' = [driver EXCEPT !.pc = IF Pending("mouse") /\ driver.reads < DrainMax
                                       THEN "exitread" ELSE "disable"]
    /\ UNCHANGED <<queue, wire, torn, loads, aux, streaming, stolen>> /\ Quiet

ExitDrainRead ==
    /\ DriverAt("exitread")
    /\ driver' = [driver EXCEPT !.pc = "exit", !.reads = @ + 1]
    /\ queue' = IF queue = <<>> THEN queue ELSE Tail(queue)
    /\ UNCHANGED <<wire, torn, loads, aux, streaming, stolen>> /\ Quiet

\* outb(0x64, 0xA7): the port no longer passes bytes on.
DisableAux ==
    /\ DriverAt("disable")
    /\ aux' = FALSE
    /\ driver' = Unloaded
    /\ UNCHANGED <<queue, wire, torn, loads, streaming, stolen>> /\ Quiet

Ps2Next ==
    \/ \E k \in Ps2Keys, down \in BOOLEAN : Stroke(k, down)
    \/ \E bit3 \in BOOLEAN : MouseMoves(bit3)
    \/ \E dev \in {"keyboard", "mouse"} : ByteIn(dev)
    \/ PollStatus
    \/ PollRead
    \/ KdmInit
    \/ InitDrain
    \/ InitDrainRead
    \/ RunStatus
    \/ RunRead
    \/ KdmExit
    \/ DriverDies
    \/ ExitDrain
    \/ ExitDrainRead
    \/ DisableAux

Ps2Spec == Ps2Init /\ [][Ps2Next]_ps2Vars

-----------------------------------------------------------------------------
(* Properties.                                                             *)

Ps2TypeOK ==
    /\ Len(queue) <= QueueCap
    /\ {aux, streaming, stolen, torn, wrong, twins} \subseteq BOOLEAN
    /\ poll \in {"idle", "read"}
    /\ driver.reads \in 0 .. DrainMax /\ Len(driver.pkt) <= 2
    /\ driver.sync \in {"fresh", "packets", "lost"}
    /\ driver.pc \in {"none", "drain", "drainread", "run", "runread", "exit", "exitread", "disable"}

\* The text stream is what was typed, in order and with the modifiers held at
\* the time, whatever the mouse sends in between and however the reads of the
\* driver fall between a status and a read of poll: each reader takes only its
\* own bytes, so the head cannot change between the two.  The exceptions are
\* the drain of kdm_init, which takes keyboard bytes, and both Shift keys held.
TypedIsRead ==
    (~stolen /\ ~twins) =>
        /\ ~wrong
        /\ (wire.keyboard = <<>> /\ ~\E i \in DOMAIN queue : queue[i].from = "keyboard") => due = <<>>

\* What the driver reports is a movement of the mouse, byte for byte, once it
\* started at the beginning of one and no late acknowledgement came in between:
\* no byte of the mouse goes to poll.
PacketsWhole == ~stolen => ~torn

\* Keyboard and mouse share the controller without taking each other's bytes
\* (poll, kdm_run, kdm_exit).
Ps2Inv ==
    /\ Ps2TypeOK
    /\ TypedIsRead
    /\ PacketsWhole
=============================================================================
