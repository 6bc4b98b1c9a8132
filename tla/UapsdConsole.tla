---------------------------- MODULE UapsdConsole ----------------------------
(***************************************************************************)
(* The console's side of a U-APSD test (src/uapsd_stream.c,                *)
(* send_uapsd_console): one thread that answers packets by the table of    *)
(* the test it was configured for, until it is stopped by the exchange, by *)
(* too many resets, or because nothing has come for 60 seconds.            *)
(***************************************************************************)
EXTENDS UapsdLink

CONSTANTS ConsoleRetries   \* MAX_RETRY of the console

ASSUME ConsoleAssumption == ConsoleRetries \in Nat

VARIABLES con              \* the fields of the stream

Console ==
  [tc : Tests, state : 0..9, can_quit : BOOLEAN, reset : BOOLEAN,
   reset_rx : BOOLEAN, num_retry : 0..(ConsoleRetries + 2), stop : BOOLEAN,
   expired : BOOLEAN]

ConsoleTypeOK == con \in Console

(* The stream's fields are zero, but for the test.                         *)
ConsoleInit(tests) ==
  \E tc \in tests :
    con = [tc |-> tc, state |-> 0, can_quit |-> FALSE, reset |-> FALSE,
           reset_rx |-> FALSE, num_retry |-> 0, stop |-> FALSE,
           expired |-> FALSE]

-----------------------------------------------------------------------------
(* Each of these takes the console's fields c before, and gives those      *)
(* after and the packets sent.                                             *)
Done(c, ps) == [con |-> c, tx |-> ps]

(* sigma_uapsd_reset                                                       *)
Reset(c) ==
  LET n == c.num_retry + 1
  IN  Done([c EXCEPT !.num_retry = n, !.reset = TRUE, !.reset_rx = FALSE,
              !.stop = @ \/ n > ConsoleRetries],
           (IF n > ConsoleRetries THEN <<Msg("RESET_STOP")>> ELSE <<>>)
             \o <<Msg(IF c.reset_rx THEN "RESET_RESP" ELSE "RESET")>>)

(* A STOP ends the console, unless it has not seen a HELLO before.         *)
Quit(c) == IF c.can_quit THEN [c EXCEPT !.stop = TRUE]
                         ELSE [c EXCEPT !.can_quit = TRUE]

(* Mutation: both the answer and the function count.                       *)
Advance_Twice(c) == [c EXCEPT !.state = @ + 2]
Advance(c) == [c EXCEPT !.state = @ + 1]

(* console_rx_hello and the functions that expect one kind of packet       *)
Answers(c, fn, p) ==
  IF p # fn.expected THEN Done(c, <<>>)
  ELSE Done(Advance(c), IF fn.f = "hello" THEN <<Msg(c.tc)>> ELSE fn.tx)

(* console_rx_tx_stop: a STOP goes out whatever came in                    *)
Stops(c, fn, p) ==
  Done(IF p = fn.expected THEN Quit(Advance(c)) ELSE Advance(c), fn.tx)

(* console_rx_vo_tx_vo_cyclic                                              *)
Cycle(c, fn, p) ==
  IF p = fn.expected THEN Done(c, fn.tx)
  ELSE IF p = Msg("STOP") THEN Done(Quit(c), <<Msg("STOP")>>)
  ELSE Reset(c)

(* The function for the test and state; none is left at the end of a row.  *)
Call(c, p) ==
  LET row == uapsd_console_state_tbl[c.tc]
      fn  == row[c.state + 1]
  IN  IF c.state >= Len(row) THEN Done(c, <<>>)
      ELSE CASE fn.f \in {"hello", "answer"} -> Answers(c, fn, p)
             [] fn.f = "stop" -> Stops(c, fn, p)
             [] fn.f = "cyclic" -> Cycle(c, fn, p)

(* What the loop does with a packet before and besides that call: a HELLO  *)
(* starts the test over, and is all a console in reset listens to.         *)
Greeted(c) == [c EXCEPT !.reset = FALSE, !.state = 0, !.can_quit = TRUE]

Handled(c, p) ==
  CASE p.msg = "HELLO" -> Call(Greeted(c), p)
    [] p.msg # "HELLO" /\ c.reset -> Done(c, <<>>)
    [] p.msg = "RESET" /\ ~c.reset ->
         LET r == Reset([c EXCEPT !.reset_rx = TRUE])
             h == Call(r.con, p)
         IN  Done(h.con, r.tx \o h.tx)
    [] p.msg = "RESET_STOP" /\ ~c.reset -> Call([c EXCEPT !.stop = TRUE], p)
    [] OTHER -> Call(c, p)

ConsolePacket ==
  /\ ~con.stop
  /\ up # <<>>
  /\ LET h == Handled(con, Head(up))
     IN  con' = h.con /\ down' = Sent(down, h.tx)
  /\ up' = Tail(up)

(* UAPSD_CONSOLE_TIMER polls of 300 ms in a row brought no packet.         *)
ConsoleExpires ==
  /\ ~con.stop
  /\ up = <<>>
  /\ con' = [con EXCEPT !.stop = TRUE, !.expired = TRUE]
  /\ UNCHANGED <<up, down>>

=============================================================================
