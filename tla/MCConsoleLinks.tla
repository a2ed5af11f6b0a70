---------------------------- MODULE MCConsoleLinks ----------------------------
(***************************************************************************)
(* console-monitor for TLC: two console ports and two baud rates for the   *)
(* DCE service, and one line whose frames and heartbeats run side by side  *)
(* with it.  The three share no variable (that a proxy is started and      *)
(* stopped is "wanted" in ConsoleHeartbeats), so that a behaviour is one   *)
(* of the three parts, while the others rest.                              *)
(***************************************************************************)
EXTENDS ConsoleLinks, ConsoleHeartbeats, Sequences

CONSTANTS
    l1, l2, b1, b2,
    Bodies, SOF_LEN, EOF_LEN, MAX_FRAME_BUFFER_SIZE, MaxFrames, MaxTyped, MaxNoise

VARIABLES
    sending, buffer, escape_next, in_frame, passed, heard, typed, whole, broken, doubt, leaked,
    excess, frames, noise,
    part    \* the part this behaviour is about

MCLinks == {l1, l2}
MCBauds == {b1, b2}

\* A heartbeat has zeros in its content, which are escaped, as its sequence number may be.
MCBodies == {<<"text", "dle", "eof", "text">>, <<"text", "dle", "sof", "text">>}

Frames == INSTANCE ConsoleFrames

\* Which characters of a content are preceded by an escape, 0 being the one before the first.
Escapes(body, e) ==
    /\ ~e[0] /\ ~e[Len(body)]
    /\ \A i \in DOMAIN body :
          /\ e[i] <=> body[i] = "dle" /\ ~e[i - 1]
          /\ body[i] \in {"sof", "eof"} => e[i - 1]

\* Contents are escaped, with an SOF or EOF in each, and as long as each other before that, so that
\* none is a part of another.  A heartbeat fits into the buffer, has an SOF to spare, and its timeout
\* is longer than the time between two.
ASSUME ConsoleAssumption ==
    /\ \A b \in Bodies :
          /\ b \in Seq(Frames!Characters)
          /\ Len(b) < MAX_FRAME_BUFFER_SIZE
          /\ \E i \in DOMAIN b : b[i] \in {"sof", "eof"}
          /\ \E e \in [0 .. Len(b) -> BOOLEAN] : Escapes(b, e)
    /\ \A b, c \in Bodies : \A q \in 0 .. Len(b) - Len(c) :
          (\A i \in DOMAIN c : c[i] = b[q + i]) => Len(c) = Len(b)
    /\ SOF_LEN \in Nat \ {0, 1} /\ {EOF_LEN, MAX_FRAME_BUFFER_SIZE} \subseteq Nat \ {0}
    /\ HEARTBEAT_TIMEOUT \in Nat \ {0, 1}
    /\ Absent \notin {"Up", "Unknown"}

streamVars == <<sending, buffer, escape_next, in_frame, passed, heard, typed, whole, broken, doubt,
                leaked, excess, frames, noise>>

consoleVars == <<linkVars, streamVars, heartVars, part>>

\* The rows and the switch of a part this behaviour is not about do not matter.
ConsoleInit ==
    /\ part \in {"links", "frames", "heartbeats"}
    /\ Init
    /\ part # "links" => enabled /\ \A l \in Links : rows[l] = None
    /\ Frames!Init
    /\ LineInit
    /\ part # "heartbeats" => switch

LinksStep ==
    /\ part = "links" /\ Next
    /\ UNCHANGED <<streamVars, heartVars>>

FramesStep ==
    /\ part = "frames" /\ Frames!Next
    /\ UNCHANGED <<linkVars, heartVars>>

HeartbeatsStep ==
    /\ part = "heartbeats" /\ LineNext
    /\ UNCHANGED <<linkVars, streamVars>>

ConsoleNext ==
    /\ UNCHANGED part
    /\ LinksStep \/ FramesStep \/ HeartbeatsStep

\* LinksFairness and LineFairness, each of the behaviours that are about its part.
ConsoleFairness ==
    /\ WF_linkVars(part = "links" /\ Dce)
    /\ \A l \in Links : WF_linkVars(part = "links" /\ ProxyReads(l))
    /\ WF_heartVars(part = "heartbeats" /\ DteNext)
    /\ WF_heartVars(part = "heartbeats" /\ ProxyNext)
    /\ WF_heartVars(part = "heartbeats" /\ Heartbeat)
    /\ WF_heartVars(part = "heartbeats" /\ Tick)

ConsoleSpec == ConsoleInit /\ [][ConsoleNext]_consoleVars /\ ConsoleFairness
-----------------------------------------------------------------------------
(* Properties of the frames and heartbeats, under names of this module.    *)

\* No byte of the console is lost, none of a frame shown, but for disturbances of the stream.
FramesApart == Frames!FramesApart

\* A heartbeat whose bytes arrive together is heard, and a disturbance costs one buffer at most.
HeartbeatsHeard == Frames!HeartbeatsHeard

\* In the end heartbeats are sent as the switch says, and the proxy shows it.
SwitchShowsOnLine == <>[](part = "heartbeats" => Agreed)
=============================================================================
