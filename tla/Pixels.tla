------------------------------- MODULE Pixels -------------------------------
(***************************************************************************)
(* The colours of a strip, from the commands of a client and the built-in  *)
(* app to the pulses on the wire: the control characteristic               *)
(* (ble/led_impl.cc), default_init and default_refresh (core/userapp.cc),  *)
(* the pixels that render writes (led_impl.cc), the transcoders            *)
(* (periph/spi_transcode.cc, spi_transcode_alt.cc) and the buffer they     *)
(* write to (include/util.hh, core/buffer.cc).                             *)
(*                                                                         *)
(* The softdevice task executes a command pixel by pixel; the LED thread,  *)
(* of a higher priority, interrupts it anywhere, and gives way while it    *)
(* waits in userapp::with.  What else asks the strip to start anew is      *)
(* LedStrip's subject, how a buffer is sent LedTx's.  The colour mode is   *)
(* rgb.                                                                    *)
(*                                                                         *)
(* In a buffer, each byte of an LED is its colour and a byte of a bus reset *)
(* is Low; the bits of the two transcoders are looked at by themselves.     *)
(* The strip is external: an LED samples the wire half a microsecond after  *)
(* each rising edge, takes the first 24 bits and passes on the rest.        *)
(***************************************************************************)
EXTENDS Naturals, Sequences, FiniteSets

CONSTANTS
  MaxLeds,         \* MAX_LEDS_PER_THREAD
  ResetLen,        \* bytes_per_reset
  LedLen,          \* bytes_per_led
  Size,            \* bytes of a buffer
  Colours, Black,  \* what a client, the DMX values and memset write
  NoColour,        \* fewer than three DMX values
  Low,             \* a byte of a bus reset
  Commands,        \* what a client writes to the control characteristic
  MaxCommands, MaxChanges   \* bounds of the model

Paints == Colours \cup {Black}

(* What on_control_write takes from the events it accepts.                 *)
Offs == [kind : {"off"}, at : Nat]
Ranges == [kind : {"range"}, at : Nat, length : Nat, colour : Paints]
Seeks == [kind : {"seek"}, at : Nat]
Seqs == [kind : {"seq"}, at : Nat, colours : Seq(Paints), rest : 0..2]

ASSUME PixelsAssumption ==
  /\ {MaxLeds, ResetLen, LedLen} \subseteq Nat \ {0} /\ Size \in Nat
  /\ Black \notin Colours /\ {NoColour, Low} \cap Paints = {}
  /\ Commands \subseteq Offs \cup Ranges \cup Seeks \cup Seqs
  /\ \A c \in Commands : c.kind \in {"off", "seq"} => c.at = 0
  /\ MaxCommands \in Nat /\ MaxChanges \in Nat

VARIABLES
  pixels,   \* user_buffer, an LED's three bytes as one
  seqwrite, \* seqwrite_offset
  reset,    \* reset_strip
  n_leds,   \* the number of LEDs in the LED thread's configuration
  dmx,      \* the first three DMX values
  cmd,      \* the command in execution: what it is, where it is
  last,     \* ghost: the latest command, what it found, whether the app drew since
  led,      \* the LED thread: pc, props.n_leds, props.dmx_vals, do_fill_zeros
  tc,       \* tc_idx
  out,      \* the buffers of the two transcoders
  strip,    \* the colours that the LEDs show
  left      \* how often each bounded event may still happen

source == <<pixels, seqwrite, n_leds, dmx, cmd, last, left>>
pixels_vars == <<source, reset, led, tc, out, strip>>

None == [kind |-> "none"]
Leds == 1..MaxLeds
Least(a, b) == IF a < b THEN a ELSE b
-----------------------------------------------------------------------------
(* struct buffer.                                                          *)
NewBuffer == [bytes |-> [i \in 1..Size |-> Low], pos |-> 0, zeros |-> 0, failed |-> FALSE]

Put(b, data) ==
  [b EXCEPT !.bytes = SubSeq(@, 1, b.pos) \o data \o SubSeq(@, b.pos + Len(data) + 1, Size),
            !.pos = @ + Len(data)]

Write(b, data) ==
  IF Len(data) > Size - b.pos THEN [b EXCEPT !.failed = TRUE]
    ELSE [Put(b, data) EXCEPT !.zeros = Least(b.zeros, b.pos)]

\* Deliberate bug: the number of zeros is noted before it is counted down.
FillKeepsZeros(b, n) ==
  CASE n > Size - b.pos      -> [b EXCEPT !.failed = TRUE]
    [] b.pos + n <= b.zeros  -> b
    [] OTHER -> [Put(b, [i \in 1..n |-> Low])
                   EXCEPT !.zeros = IF b.pos = 0 THEN n ELSE b.zeros]

(* fill with zeros.  Bytes that are known to be zero are skipped without   *)
(* advancing; but n is 0 when it is noted how many are known to be.        *)
Fill(b, n) ==
  CASE n > Size - b.pos      -> [b EXCEPT !.failed = TRUE]
    [] b.pos + n <= b.zeros  -> b
    [] OTHER -> [Put(b, [i \in 1..n |-> Low])
                   EXCEPT !.zeros = IF b.pos = 0 THEN 0 ELSE b.zeros]

WriteLeds(b, cs) ==
  Write(b, [i \in 1..LedLen * Len(cs) |-> cs[(i - 1) \div LedLen + 1]])

(* The strip, which has shown old, after the bytes of a frame.             *)
Sent(b) == SubSeq(b.bytes, 1, b.pos)
Ends(bytes, k, i) ==
  bytes[k] # Low /\ Cardinality({j \in 1..k : bytes[j] # Low}) = LedLen * i
Shows(bytes, old) ==
  [i \in Leds |->
     IF \E k \in DOMAIN bytes : Ends(bytes, k, i)
       THEN bytes[CHOOSE k \in DOMAIN bytes : Ends(bytes, k, i)] ELSE old[i]]

(* A frame of these colours, after the first bus reset has been written;   *)
(* black for the LEDs behind the n-th if the strip starts anew.            *)
Rendered(b, colours, n, fill) ==
  LET all == [i \in 1..IF fill THEN MaxLeds ELSE Least(n, MaxLeds) |->
                IF i <= n THEN colours[i] ELSE Black]
  IN  Fill(WriteLeds(b, all), ResetLen)
-----------------------------------------------------------------------------
(* transcode_8mhz::write: a byte for each bit; transcode_8mhz_alt::write:  *)
(* five bytes for four bits of ten ticks each.                             *)
Bit(v, k) == (v \div 2^k) % 2
Code8(v) == [i \in 1..8 |-> IF Bit(v, 8 - i) = 1 THEN 248 ELSE 224]

\* Deliberate bug: the third pulse takes one of its bytes from the fourth bit.
AltNibbleMixed(v, k) ==
  << IF Bit(v, k + 3) = 1 THEN 252 ELSE 224,
     IF Bit(v, k + 2) = 1 THEN 63 ELSE 56,
     IF Bit(v, k) = 1 THEN 15 ELSE 14,
     IF Bit(v, k) = 1 THEN 195 ELSE 3,
     IF Bit(v, k) = 1 THEN 240 ELSE 128 >>

AltNibble(v, k) ==
  << IF Bit(v, k + 3) = 1 THEN 252 ELSE 224,
     IF Bit(v, k + 2) = 1 THEN 63 ELSE 56,
     IF Bit(v, k + 1) = 1 THEN 15 ELSE 14,
     IF Bit(v, k + 1) = 1 THEN 195 ELSE 3,
     IF Bit(v, k) = 1 THEN 240 ELSE 128 >>

CodeAlt(v) == AltNibble(v, 4) \o AltNibble(v, 0)

(* The bits that an LED reads: the wire four ticks after each rising edge. *)
Tick(bytes, i) ==
  i <= 8 * Len(bytes) /\ Bit(bytes[(i - 1) \div 8 + 1], 7 - ((i - 1) % 8)) = 1
Rises(bytes) ==
  {i \in 1..8 * Len(bytes) : Tick(bytes, i) /\ (i = 1 \/ ~Tick(bytes, i - 1))}
Edge(bytes, k) ==
  CHOOSE i \in Rises(bytes) : Cardinality({j \in Rises(bytes) : j <= i}) = k
Pulses(bytes) ==
  [k \in 1..Cardinality(Rises(bytes)) |->
     IF Tick(bytes, Edge(bytes, k) + 4) THEN 1 ELSE 0]
-----------------------------------------------------------------------------
(* task_func sets a dark strip as the first buffer.                        *)
PixelsInit ==
  /\ pixels = [i \in Leds |-> Black] /\ seqwrite = 0 /\ reset = TRUE
  /\ n_leds = MaxLeds /\ dmx = NoColour
  /\ cmd = None /\ last = [cmd |-> None, pixels |-> pixels, at |-> 0, drew |-> FALSE]
  /\ led = [pc |-> "frame", n |-> MaxLeds, dmx |-> NoColour, fill |-> FALSE]
  /\ tc = 0
  /\ out = [i \in 0..1 |->
             IF i = 0 THEN Rendered(Fill(NewBuffer, ResetLen), pixels, MaxLeds, FALSE)
                      ELSE NewBuffer]
  /\ strip \in [Leds -> Colours]
  /\ left = [commands |-> MaxCommands, changes |-> MaxChanges]

\* Deliberate bug: the buffer is not reset before it is written.
StartFrameAppends ==
  /\ led.pc = "frame"
  /\ strip' = Shows(Sent(out[tc]), strip)
  /\ tc' = 1 - tc
  /\ out' = [out EXCEPT ![tc'] = Fill(@, ResetLen)]
  /\ led' = [pc |-> "with", n |-> n_leds, dmx |-> dmx, fill |-> reset]
  /\ reset' = FALSE
  /\ UNCHANGED source

(* task_func sends the buffer and calls render for the other one, which    *)
(* writes a bus reset and takes the request to start anew, ...             *)
StartFrame ==
  /\ led.pc = "frame"
  /\ strip' = Shows(Sent(out[tc]), strip)
  /\ tc' = 1 - tc
  /\ out' = [out EXCEPT ![tc'] = Fill([@ EXCEPT !.pos = 0], ResetLen)]
  /\ led' = [pc |-> "with", n |-> n_leds, dmx |-> dmx, fill |-> reset]
  /\ reset' = FALSE
  /\ UNCHANGED source

(* default_init, default_refresh: black, or the colour that the DMX values *)
(* are.                                                                    *)
AppDraws ==
  LET paint == IF led.fill THEN Black ELSE led.dmx
  IN  [i \in Leds |-> IF i <= led.n /\ paint # NoColour THEN paint ELSE pixels[i]]

\* Deliberate bug: the LEDs that are not configured keep what they show.
FinishUnfilled ==
  /\ led.pc = "with"
  /\ pixels' = AppDraws
  /\ last' = [last EXCEPT !.drew = @ \/ led.n > 0]
  /\ out' = [out EXCEPT ![tc] = Rendered(@, pixels', led.n, FALSE)]
  /\ led' = [led EXCEPT !.pc = "frame"]
  /\ UNCHANGED <<seqwrite, reset, n_leds, dmx, cmd, tc, strip, left>>

(* ... calls the app, and writes the pixels.                               *)
FinishFrame ==
  /\ led.pc = "with"
  /\ pixels' = AppDraws
  /\ last' = [last EXCEPT !.drew = @ \/ (led.n > 0 /\ (led.fill \/ led.dmx # NoColour))]
  /\ out' = [out EXCEPT ![tc] = Rendered(@, pixels', led.n, led.fill)]
  /\ led' = [led EXCEPT !.pc = "frame"]
  /\ UNCHANGED <<seqwrite, reset, n_leds, dmx, cmd, tc, strip, left>>

Led == StartFrame \/ FinishFrame
-----------------------------------------------------------------------------
(* on_control_write: a command begins.                                     *)
Spend(what) == left[what] > 0 /\ left' = [left EXCEPT ![what] = @ - 1]

Begin(c) ==
  /\ cmd = None
  /\ Spend("commands")
  /\ cmd' = c
  /\ last' = [cmd |-> c, pixels |-> pixels, at |-> seqwrite, drew |-> FALSE]
  /\ UNCHANGED <<pixels, seqwrite, reset, n_leds, dmx, led, tc, out, strip>>

\* Deliberate bug: the strip is cleared, but does not start anew.
TurnOffQuietly ==
  /\ cmd.kind = "off"
  /\ IF cmd.at < MaxLeds
       THEN /\ pixels' = [pixels EXCEPT ![cmd.at + 1] = Black]
            /\ cmd' = [cmd EXCEPT !.at = @ + 1]
       ELSE cmd' = None /\ UNCHANGED pixels
  /\ UNCHANGED <<seqwrite, reset>>

(* 00: memset, then the request to start anew.                             *)
TurnOff ==
  /\ cmd.kind = "off"
  /\ IF cmd.at < MaxLeds
       THEN /\ pixels' = [pixels EXCEPT ![cmd.at + 1] = Black]
            /\ cmd' = [cmd EXCEPT !.at = @ + 1]
            /\ UNCHANGED reset
       ELSE reset' = TRUE /\ cmd' = None /\ UNCHANGED pixels
  /\ UNCHANGED seqwrite

(* 01: offset counts bytes, three for an LED.                              *)
SetRange ==
  /\ cmd.kind = "range"
  /\ IF 3 * cmd.at + 2 < 3 * MaxLeds /\ cmd.length > 0
       THEN /\ pixels' = [pixels EXCEPT ![cmd.at + 1] = cmd.colour]
            /\ cmd' = [cmd EXCEPT !.at = @ + 1, !.length = @ - 1]
       ELSE cmd' = None /\ UNCHANGED pixels
  /\ UNCHANGED <<seqwrite, reset>>

(* 10: the place from which to go on.                                      *)
Seek ==
  /\ cmd.kind = "seek"
  /\ seqwrite' = cmd.at
  /\ cmd' = None
  /\ UNCHANGED <<pixels, reset>>

\* Deliberate bug: the last colour is taken to be incomplete.
SequentialWriteShort ==
  /\ cmd.kind = "seq"
  /\ IF 3 * cmd.at + 4 < 1 + 3 * Len(cmd.colours) + cmd.rest /\ seqwrite < MaxLeds
       THEN /\ pixels' = [pixels EXCEPT ![seqwrite + 1] = cmd.colours[cmd.at + 1]]
            /\ cmd' = [cmd EXCEPT !.at = @ + 1]
            /\ seqwrite' = seqwrite + 1
       ELSE cmd' = None /\ UNCHANGED <<pixels, seqwrite>>
  /\ UNCHANGED reset

(* 11: i is 1 + 3 * at; rest bytes do not make a colour.                   *)
SequentialWrite ==
  /\ cmd.kind = "seq"
  /\ IF 3 * cmd.at + 3 < 1 + 3 * Len(cmd.colours) + cmd.rest /\ seqwrite < MaxLeds
       THEN /\ pixels' = [pixels EXCEPT ![seqwrite + 1] = cmd.colours[cmd.at + 1]]
            /\ cmd' = [cmd EXCEPT !.at = @ + 1]
            /\ seqwrite' = seqwrite + 1
       ELSE cmd' = None /\ UNCHANGED <<pixels, seqwrite>>
  /\ UNCHANGED reset

Execute ==
  /\ TurnOff \/ SetRange \/ Seek \/ SequentialWrite
  /\ UNCHANGED <<n_leds, dmx, last, led, tc, out, strip, left>>

(* Another number of LEDs, with or without a new start: the request may    *)
(* have been taken for the old number.  Other DMX values.                  *)
SetNumLeds(n) ==
  /\ Spend("changes")
  /\ n_leds' = n
  /\ reset' \in {reset, TRUE}
  /\ UNCHANGED <<pixels, seqwrite, dmx, cmd, last, led, tc, out, strip>>

SetDmx(c) ==
  /\ Spend("changes")
  /\ dmx' = c
  /\ UNCHANGED <<pixels, seqwrite, reset, n_leds, cmd, last, led, tc, out, strip>>

PixelsNext ==
  \/ Led \/ Execute
  \/ \E c \in Commands : Begin(c)
  \/ \E n \in 0..MaxLeds : SetNumLeds(n)
  \/ \E c \in Colours \cup {NoColour} : SetDmx(c)

PixelsSpec == PixelsInit /\ [][PixelsNext]_pixels_vars

(* The LED thread draws frame after frame; a command ends.                 *)
FairPixelsSpec == PixelsSpec /\ WF_pixels_vars(Led) /\ WF_pixels_vars(Execute)
-----------------------------------------------------------------------------
(* The types of the variables.                                             *)
PixelsTypeOK ==
  /\ pixels \in [Leds -> Paints] /\ strip \in [Leds -> Paints]
  /\ seqwrite \in Nat /\ reset \in BOOLEAN /\ n_leds \in 0..MaxLeds
  /\ dmx \in Colours \cup {NoColour}
  /\ led \in [pc : {"frame", "with"}, n : 0..MaxLeds,
             dmx : Colours \cup {NoColour}, fill : BOOLEAN]
  /\ tc \in 0..1
  /\ \A i \in 0..1 : out[i].pos \in 0..Size /\ ~out[i].failed

(* A frame that is ready lies between two bus resets, has a colour for     *)
(* each configured LED, or for all of them if the strip starts anew, and   *)
(* nothing else, whatever the buffer held before.                          *)
FrameIsWhole ==
  led.pc = "frame" =>
    LET b == Sent(out[tc])
        n == IF led.fill THEN MaxLeds ELSE led.n
    IN  /\ Len(b) = 2 * ResetLen + LedLen * n
        /\ \A i \in 1..ResetLen : b[i] = Low /\ b[Len(b) + 1 - i] = Low
        /\ \A i \in ResetLen + 1..Len(b) - ResetLen : b[i] # Low

(* The colours of a frame are read: an LED finds the eight bits of a byte, *)
(* the highest first, in what either transcoder makes of it; the wire is   *)
(* low at its end, so that the next byte begins with an edge, and no byte  *)
(* of it could be taken for one of a bus reset.                            *)
EachByteIsRead ==
  \A v \in 0..255 : \A code \in {Code8(v), CodeAlt(v)} :
    /\ Pulses(code) = [i \in 1..8 |-> Bit(v, 8 - i)]
    /\ Tick(code, 1) /\ ~Tick(code, 8 * Len(code))
    /\ \A i \in DOMAIN code : code[i] # 0

ColoursAreRead == out[tc].pos > 2 * ResetLen => EachByteIsRead

(* What the commands say (led_impl.cc:366-371): "set yyyy leds starting    *)
(* from xxxx", "set LEDS starting from current ptr", also when a command   *)
(* runs over the end of the strip or the last colour is incomplete.        *)
Meant(c, old, at) ==
  [i \in Leds |->
     CASE c.kind = "off" -> Black
       [] c.kind = "range" /\ i - 1 \in c.at..c.at + c.length - 1 -> c.colour
       [] c.kind = "seq" /\ i - 1 \in at..at + Len(c.colours) - 1 -> c.colours[i - at]
       [] OTHER -> old[i]]
MeantPtr(c, at) ==
  CASE c.kind = "seek" -> c.at
    [] c.kind = "seq" /\ at < MaxLeds -> Least(MaxLeds, at + Len(c.colours))
    [] OTHER -> at

CommandsDoAsSaid ==
  (cmd = None /\ ~last.drew) =>
    /\ pixels = Meant(last.cmd, last.pixels, last.at)
    /\ seqwrite = MeantPtr(last.cmd, last.at)

(* In the end the configured LEDs show what was written or drawn last; and *)
(* after "turn off whole strip" (led_impl.cc:367) no LED is left lit, also *)
(* none behind the configured ones, unless DMX values light them again.    *)
StripSettles ==
  <>[](/\ \A i \in 1..n_leds : strip[i] = pixels[i]
       /\ (last.cmd.kind = "off" /\ dmx = NoColour)
            => \A i \in Leds : strip[i] = Black)
=============================================================================
