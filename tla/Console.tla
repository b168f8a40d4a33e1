------------------------------- MODULE Console -------------------------------
(***************************************************************************)
(* Receiving from a console: one buffer that belongs either to the device, *)
(* which writes what was typed into it, or to the driver, which hands it   *)
(* out through recv or through the traits of embedded-io, whichever its    *)
(* owner calls.  A receive request is made only when the buffer is empty.  *)
(***************************************************************************)
EXTENDS Naturals, Sequences, DriverQueue

CONSTANTS
    Input,      \* number of characters typed, 1 .. Input in their order
    Page,       \* size of the buffer (PAGE_SIZE)
    MaxOut      \* characters sent

ConsoleAssumption == Input \in Nat /\ Page \in Nat \ {0} /\ MaxOut \in Nat

VARIABLES
    receiveq,       \* queue of receive requests
    queue_buf_rx,   \* the buffer, a sequence of characters
    cursor, pending_len,
    receive_token,  \* token of the outstanding request, or NoToken
    reading,        \* read or fill_buf under way: characters wanted, 0 if none
    isr,            \* device: interrupt pending
    typed,          \* device: characters that have been typed and not been received
    received,       \* what the owner has read
    out             \* device: what it was sent

drv == <<receiveq, queue_buf_rx, cursor, pending_len, receive_token>>
consoleVars == <<drv, reading, isr, typed, received, out>>

NoToken == 99
Empty == cursor = pending_len

-----------------------------------------------------------------------------
(****************************** helpers of recv ****************************)

\* Mutant: a request is made though there are characters left in the buffer.
PollRetrieveEager(q, tok, c, len) ==
    IF tok = NoToken
    THEN [q |-> AddChain(q, 1, "rx"), tok |-> Token(q)] ELSE [q |-> q, tok |-> tok]

\* poll_retrieve, from the state that the caller has brought about.
PollRetrieve(q, tok, c, len) ==
    IF tok = NoToken /\ c = len
    THEN [q |-> AddChain(q, 1, "rx"), tok |-> Token(q)] ELSE [q |-> q, tok |-> tok]

\* Mutant: the token is kept when the request has finished.
FinishReceiveKeeps ==
    IF receive_token # NoToken /\ Pops(receiveq, receive_token)
    THEN [q |-> PopUsed(receiveq), tok |-> receive_token, cur |-> 0, len |-> Response(receiveq)]
    ELSE [q |-> receiveq, tok |-> receive_token, cur |-> cursor, len |-> pending_len]

\* finish_receive: the state after it.
FinishReceive ==
    IF receive_token # NoToken /\ Pops(receiveq, receive_token)
    THEN [q |-> PopUsed(receiveq), tok |-> NoToken, cur |-> 0, len |-> Response(receiveq)]
    ELSE [q |-> receiveq, tok |-> receive_token, cur |-> cursor, len |-> pending_len]

Become(q, tok, c, len) ==
    /\ receiveq' = q /\ receive_token' = tok /\ cursor' = c /\ pending_len' = len
    /\ UNCHANGED queue_buf_rx

-----------------------------------------------------------------------------
(****************************** calls of the owner *************************)

\* recv(true) hands out a character; recv(false) leaves it in the buffer.
Recv ==
    LET f == FinishReceive
        p == PollRetrieve(f.q, f.tok, f.cur + 1, f.len)
    IN  /\ reading = 0
        /\ IF f.cur = f.len THEN Become(f.q, f.tok, f.cur, f.len) /\ UNCHANGED received
           ELSE Become(p.q, p.tok, f.cur + 1, f.len) /\ received' = Append(received, queue_buf_rx[f.cur + 1])
        /\ UNCHANGED <<reading, isr, typed, out>>

\* recv(false), and read_ready of embedded-io.
ReadReady ==
    LET f == FinishReceive
    IN  reading = 0 /\ Become(f.q, f.tok, f.cur, f.len) /\ UNCHANGED <<reading, isr, typed, received, out>>

AckInterrupt ==
    LET f == FinishReceive
    IN  /\ reading = 0 /\ isr /\ isr' = FALSE
        /\ Become(f.q, f.tok, f.cur, f.len)
        /\ UNCHANGED <<reading, typed, received, out>>

\* read(buf) with room for n: a request is made if the buffer is empty, and the
\* driver spins until there is something in it (wait_for_receive).
Read ==
    \E n \in 1 .. Page : LET p == PollRetrieve(receiveq, receive_token, cursor, pending_len)
                         IN  /\ reading = 0 /\ reading' = n
                             /\ Become(p.q, p.tok, cursor, pending_len)
                             /\ UNCHANGED <<isr, typed, received, out>>

WaitForReceive ==
    LET f == FinishReceive
    IN  /\ reading > 0 /\ Empty
        /\ Become(f.q, f.tok, f.cur, f.len)
        /\ UNCHANGED <<reading, isr, typed, received, out>>

\* read takes what there is, up to n; fill_buf returns all of it and consume(n)
\* moves on by n.
Consume ==
    LET n == IF reading < pending_len - cursor THEN reading ELSE pending_len - cursor
    IN  /\ reading > 0 /\ ~Empty
        /\ received' = received \o SubSeq(queue_buf_rx, cursor + 1, cursor + n)
        /\ cursor' = cursor + n /\ reading' = 0
        /\ UNCHANGED <<receiveq, queue_buf_rx, pending_len, receive_token, isr, typed, out>>

\* send, send_bytes and emergency_write return once the device has what they were
\* given.
SendBytes == reading = 0 /\ out < MaxOut /\ out' = out + 1 /\ UNCHANGED <<drv, reading, isr, typed, received>>

-----------------------------------------------------------------------------
(******************************** the device *******************************)

\* The device puts what was typed into the buffer it holds.
DeviceReceives ==
    \E t \in Held(receiveq), n \in 1 .. Page :
        /\ n <= Len(typed)
        /\ queue_buf_rx' = [i \in 1 .. Page |-> IF i <= n THEN typed[i] ELSE queue_buf_rx[i]]
        /\ typed' = SubSeq(typed, n + 1, Len(typed))
        /\ receiveq' = Use(receiveq, t, n) /\ isr' = TRUE
        /\ UNCHANGED <<cursor, pending_len, receive_token, reading, received, out>>

\* VirtIOConsole::new makes the first request.
ConsoleInit ==
    /\ LET p == PollRetrieve(NewVirtQueue(2, FALSE), NoToken, 0, 0)
       IN  receiveq = p.q /\ receive_token = p.tok
    /\ queue_buf_rx = [i \in 1 .. Page |-> 0] /\ cursor = 0 /\ pending_len = 0
    /\ reading = 0 /\ isr = FALSE /\ typed = [i \in 1 .. Input |-> i] /\ received = <<>> /\ out = 0

ConsoleNext ==
    \/ Recv \/ ReadReady \/ AckInterrupt \/ Read \/ WaitForReceive \/ Consume \/ SendBytes
    \/ DeviceReceives

ConsoleSpec == ConsoleInit /\ [][ConsoleNext]_consoleVars

-----------------------------------------------------------------------------
(******************************** properties *******************************)

\* What is read is what was typed, nothing twice, nothing missing and in order,
\* however recv, read, read_ready and interrupts alternate (queue_buf_rx is the
\* driver's from finish_receive until cursor reaches pending_len).
CharactersInOrder ==
    received \o SubSeq(queue_buf_rx, cursor + 1, pending_len)
        \o (IF CanPop(receiveq) THEN SubSeq(queue_buf_rx, 1, Response(receiveq)) ELSE <<>>) \o typed
      = [i \in 1 .. Input |-> i]

\* The owner has received everything that is typed.
AllRead == Len(received) = Input
=============================================================================
