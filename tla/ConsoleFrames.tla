----------------------------- MODULE ConsoleFrames -----------------------------
(***************************************************************************)
(* scripts/console-monitor, one console line: the other device's DTE       *)
(* service writes heartbeat frames between the characters of its console,  *)
(* and FrameFilter in the proxy takes the stream apart again, byte by      *)
(* byte, so that how many bytes one read returns does not matter.          *)
(*                                                                         *)
(* A byte is <<character, origin>>.  What the origin is, the filter does   *)
(* not know: it is there for the properties.                               *)
(***************************************************************************)
EXTENDS Integers, Sequences, FiniteSets

CONSTANTS
    Bodies,      \* the escaped contents of heartbeats, sequences of characters, each shorter than a buffer
    SOF_LEN, EOF_LEN,
    MAX_FRAME_BUFFER_SIZE,
    MaxFrames,   \* bound: frames sent
    MaxTyped,    \* bound: bytes of the console
    MaxNoise     \* bound: disturbances

Special    == {"sof", "eof", "dle"}
Characters == Special \cup {"text"}

VARIABLES
    sending,     \* what is left of the frame the DTE service is writing
    buffer, escape_next, in_frame,
    passed,      \* bytes of the console that reached the terminal's pty
    heard,       \* frames on_frame was called for
    typed,       \* bytes of the console sent
    whole,       \* history: frames sent to the end with no disturbance between their bytes
    broken,      \* history: the frame being sent was disturbed
    doubt,       \* history: no undisturbed frame and no timeout since the last disturbance
    leaked,      \* history: bytes of frames that reached the pty
    excess,      \* history: escapes stored in a buffer that was full
    frames, noise

filter    == <<buffer, escape_next, in_frame>>
frameVars == <<sending, filter, passed, heard, typed, whole, broken, doubt, leaked, excess,
              frames, noise>>

Init ==
    /\ sending = <<>>
    /\ buffer = <<>>
    /\ escape_next = FALSE
    /\ in_frame = FALSE
    /\ passed = 0
    /\ heard = 0
    /\ typed = 0
    /\ whole = 0
    /\ broken = FALSE
    /\ doubt = FALSE
    /\ leaked = 0
    /\ excess = 0
    /\ frames = 0
    /\ noise = 0

From(origin, bytes) == Cardinality({i \in DOMAIN bytes : bytes[i][2] = origin})
Text(bytes)         == [i \in DOMAIN bytes |-> bytes[i][1]]
-----------------------------------------------------------------------------
(* FrameFilter                                                             *)

Clear(in) ==
    /\ buffer' = <<>>
    /\ escape_next' = FALSE
    /\ in_frame' = in

PassOn(bytes) ==
    /\ passed' = passed + From("console", bytes)
    /\ leaked' = leaked + From("frame", bytes)

\* _flush_as_user_data, _discard_buffer: what is inside a frame is not for the user.
Empty(bytes, in) ==
    /\ IF in_frame THEN UNCHANGED <<passed, leaked>> ELSE PassOn(bytes)
    /\ Clear(in)
    /\ UNCHANGED <<heard, excess>>

\* The size is looked at after each character but a DLE.
Store(byte) ==
    LET bytes == Append(buffer, byte) IN
    IF Len(bytes) >= MAX_FRAME_BUFFER_SIZE
    THEN Empty(bytes, FALSE)
    ELSE /\ buffer' = bytes
         /\ escape_next' = FALSE
         /\ UNCHANGED <<in_frame, passed, leaked, heard, excess>>

StoreEscape(byte) ==
    /\ buffer' = Append(buffer, byte)
    /\ escape_next' = in_frame
    /\ excess' = excess + (IF Len(buffer') >= MAX_FRAME_BUFFER_SIZE THEN 1 ELSE 0)
    /\ UNCHANGED <<in_frame, passed, leaked, heard>>

\* _try_parse_frame: the checksum tells a frame's content from everything else.
Parse ==
    /\ heard' = heard + (IF Text(buffer) \in Bodies THEN 1 ELSE 0)
    /\ Clear(FALSE)
    /\ UNCHANGED <<passed, leaked, excess>>

\* Mutant of Process: the character after an escape is looked at, too.
ProcessUnescaped(byte) ==
    CASE byte[1] = "dle" -> StoreEscape(byte)
      [] byte[1] = "sof" -> Empty(buffer, TRUE)
      [] byte[1] = "eof" -> Parse
      [] OTHER           -> Store(byte)

\* Mutant of Process: an escape counts outside of frames, too.
ProcessAlwaysEscaped(byte) ==
    IF escape_next
    THEN Store(byte)
    ELSE CASE byte[1] = "dle" -> /\ buffer' = Append(buffer, byte)
                                 /\ escape_next' = TRUE
                                 /\ UNCHANGED <<in_frame, passed, leaked, heard, excess>>
           [] byte[1] = "sof" -> Empty(buffer, TRUE)
           [] byte[1] = "eof" -> Parse
           [] OTHER           -> Store(byte)

Process(byte) ==
    IF escape_next
    THEN Store(byte)
    ELSE CASE byte[1] = "dle" -> StoreEscape(byte)
           [] byte[1] = "sof" -> Empty(buffer, TRUE)
           [] byte[1] = "eof" -> Parse
           [] OTHER           -> Store(byte)
-----------------------------------------------------------------------------
(* The other device                                                        *)

Noise == noise < MaxNoise /\ noise' = noise + 1

\* A character of the console; special ones are user data no filter can tell from a frame's.
Type ==
    /\ typed < MaxTyped
    /\ typed' = typed + 1
    /\ \E c \in Characters :
          /\ Process(<<c, "console">>)
          /\ IF sending = <<>> /\ c \in {"text", "dle"}
             THEN UNCHANGED <<broken, doubt, noise>>
             ELSE broken' = (sending # <<>>) /\ doubt' = TRUE /\ Noise
    /\ UNCHANGED <<sending, whole, frames>>

\* The body was escaped: one of Bodies.
Build(body) == [i \in 1 .. SOF_LEN |-> "sof"] \o body \o [i \in 1 .. EOF_LEN |-> "eof"]

\* Mutant of SendHeartbeat: one SOF is enough.
SendShort ==
    /\ sending = <<>>
    /\ frames < MaxFrames
    /\ \E body \in Bodies : sending' = SubSeq(Build(body), SOF_LEN, Len(Build(body)))
    /\ frames' = frames + 1
    /\ broken' = FALSE
    /\ UNCHANGED <<filter, passed, heard, typed, whole, doubt, leaked, excess, noise>>

SendHeartbeat ==
    /\ sending = <<>>
    /\ frames < MaxFrames
    /\ \E body \in Bodies : sending' = Build(body)
    /\ frames' = frames + 1
    /\ broken' = FALSE
    /\ UNCHANGED <<filter, passed, heard, typed, whole, doubt, leaked, excess, noise>>

FrameByte ==
    /\ sending # <<>>
    /\ Process(<<Head(sending), "frame">>)
    /\ sending' = Tail(sending)
    /\ IF Tail(sending) = <<>> /\ ~broken
       THEN whole' = whole + 1 /\ doubt' = FALSE
       ELSE UNCHANGED <<whole, doubt>>
    /\ UNCHANGED <<broken, typed, frames, noise>>

\* The line loses a byte, or the rest: os.write took only a part, and nobody looks.
FrameLost ==
    /\ sending # <<>>
    /\ Noise
    /\ sending' \in {Tail(sending), <<>>}
    /\ broken' = (sending' # <<>>)
    /\ doubt' = TRUE
    /\ UNCHANGED <<filter, passed, heard, typed, whole, leaked, excess, frames>>
-----------------------------------------------------------------------------
(* The proxy                                                               *)

Settled ==
    IF sending = <<>>
    THEN doubt' = FALSE /\ UNCHANGED <<broken, noise>>
    ELSE doubt' = TRUE /\ broken' = TRUE /\ Noise

\* on_timeout: nothing for as long as 192 characters take, and something is pending.
Timeout ==
    /\ buffer # <<>>
    /\ Empty(buffer, FALSE)
    /\ Settled
    /\ UNCHANGED <<sending, typed, whole, frames>>

\* _cleanup, and a new proxy: what was pending goes to the terminal, frame or not.
Replaced ==
    /\ PassOn(buffer)
    /\ Clear(FALSE)
    /\ Settled
    /\ filter # <<<<>>, FALSE, FALSE>>
    /\ UNCHANGED <<sending, heard, typed, whole, excess, frames>>
-----------------------------------------------------------------------------
Next == Type \/ SendHeartbeat \/ FrameByte \/ FrameLost \/ Timeout \/ Replaced

Spec == Init /\ [][Next]_frameVars
-----------------------------------------------------------------------------
Pending == IF in_frame THEN 0 ELSE From("console", buffer)
Lost    == typed - passed - Pending

\* While nothing has disturbed the stream since the filter was last in step, no byte of the
\* console is lost and no byte of a frame reaches the user, wherever frames begin among them.
FramesApart == [][~doubt /\ ~doubt' => Lost' = Lost /\ leaked' = leaked]_frameVars

\* A heartbeat whose bytes arrive together is heard, whatever the filter took the bytes before
\* it for; and a disturbance costs the user at most one buffer and the byte itself, but for
\* escapes, which are stored without a look at the buffer's size (312).
HeartbeatsHeard ==
    /\ heard \in whole .. whole + noise + (IF sending # <<>> THEN 1 ELSE 0)
    /\ Lost <= noise * (MAX_FRAME_BUFFER_SIZE + 1) + excess
=============================================================================
