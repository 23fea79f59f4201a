---------------------------- MODULE HostConnection ----------------------------
(***************************************************************************)
(* What the lanes of one host session (host_mcp.py) share: the connection  *)
(* of the phone it belongs to (adapter.py) and its one frame loop.         *)
(*                                                                         *)
(* The coroutine of a websocket handles its frames one at a time: `frame`  *)
(* names the request whose handler is suspended at an await, and no other  *)
(* frame is handled meanwhile.  Callbacks of the gateway, deadlines and    *)
(* the end of the connection do not wait for it.                           *)
(***************************************************************************)
EXTENDS Naturals, FiniteSets

CONSTANT None    \* no frame, turn, ask or choice

VARIABLES
    attached,   \* `_phone` is the phone of this host session
    closed,     \* _closed
    frame       \* the request whose handler is suspended, or None

connVars == <<attached, closed, frame>>

ConnectionInit == attached = TRUE /\ closed = FALSE /\ frame = None

\* The next frame of the attached phone can be handled.
Listening == attached /\ ~closed /\ frame = None

\* `_drop_phone` starts, for whatever reason: the phone is no longer attached.
Drop ==
    /\ attached /\ attached' = FALSE
    /\ UNCHANGED <<closed, frame>>

\* `close()`: by `_drop_phone` behind its error frame, or at once when a request
\* exceeds the session's budget, which drops the phone afterwards.
Close ==
    /\ ~closed /\ (attached => frame = None)
    /\ closed' = TRUE
    /\ UNCHANGED <<attached, frame>>
=============================================================================
