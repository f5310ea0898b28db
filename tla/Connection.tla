------------------------------ MODULE Connection ------------------------------
(***************************************************************************)
(* The two sides of a connection of the web server: the request that is     *)
(* read through the buffer (TcpBuffer) and the answer that is written       *)
(* (Response).  They follow each other in one thread and share nothing but  *)
(* the socket; tcp_write does not touch the buffer.  A behaviour looks at   *)
(* one side.                                                                *)
(***************************************************************************)
EXTENDS TcpBuffer, Response

VARIABLE side

connection == <<vars, answer, side>>

ConnectionInit ==
    /\ side \in {"request", "answer"}
    /\ Init /\ (side = "answer" => kind = [b \in Bytes |-> "other"])
    /\ AnswerInit /\ (side = "request" => pieces = [p \in 1 .. Lines |-> SNDBUF])

ConnectionNext ==
    \/ side = "request" /\ Next /\ UNCHANGED <<answer, side>>
    \/ side = "answer" /\ AnswerNext /\ UNCHANGED <<vars, side>>

\* The thread runs and select comes back in time; the peer may be silent.
ConnectionSpec ==
    /\ ConnectionInit /\ [][ConnectionNext]_connection
    /\ WF_connection(side = "request" /\ CallStep /\ UNCHANGED <<answer, side>>)
    /\ WF_connection(side = "answer" /\ Answer /\ UNCHANGED <<vars, side>>)

-----------------------------------------------------------------------------
(* Properties *)

\* The server gets to the end of what it has begun, on either side: a call that
\* reads returns, and an answer comes to its end and its connection is closed,
\* be the peer slow, silent or gone in the middle of a line or of the file.
ServerGoesOn ==
    /\ (side = "request" /\ pc # "idle") ~> pc = "idle"
    /\ side = "answer" ~> at = "closed"
=============================================================================
