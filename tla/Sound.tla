-------------------------------- MODULE Sound --------------------------------
(***************************************************************************)
(* VirtIOSound: the set-up that every call makes first, control requests,  *)
(* each of which the device answers before the call goes on, and the       *)
(* transfer of frames, blocking (pcm_xfer, a loop over the ring) or in two *)
(* halves (pcm_xfer_nb, pcm_xfer_ok).  Its events are the matter of module *)
(* Events.                                                                 *)
(***************************************************************************)
EXTENDS Naturals, Sequences, FiniteSets, TLC, SequencesExt, DriverQueue

CONSTANTS
    Worlds,     \* scenarios: indirect descriptors, bounds, faults
    QUEUE_SIZE,
    Jacks, Streams, \* numbers in the configuration space
    Formats     \* format codes that the device supports

VARIABLES
    world,
    set_up, jack_infos, pcm_infos, chmap_infos, \* infos: how many, or None
    pcm_parameters,     \* period_bytes and format of each stream
    accepted,           \* device: parameters of each stream
    tx_queue,
    call,       \* pcm_xfer under way
    token_buf,  \* tokens with buffers of pcm_xfer_nb
    played,     \* device: bytes played, with the transfer they belong to
    returned,   \* transfers that have returned Ok, with their frames
    left,       \* pcm_xfer returned early: its buffers are gone
    refused, panicked,
    budget      \* calls and faults still to come

infos == <<set_up, jack_infos, pcm_infos, chmap_infos>>
pcm == <<tx_queue, call, token_buf, played, returned, left>>
vars == <<world, infos, pcm_parameters, accepted, pcm, refused, panicked, budget>>

None == 99
Stream == 0 .. Streams - 1
Default == [setup |-> FALSE, period |-> 0, format |-> 0]
NoCall == [id |-> 0]
Spend(what) == budget[what] > 0 /\ budget' = [budget EXCEPT ![what] = @ - 1]
Idle == call = NoCall /\ ~panicked

-----------------------------------------------------------------------------
(****************************** control requests ***************************)

\* RequestStatusCode: what the device may answer (BadMsg, NotSupp and IoErr are one to
\* the driver).
Statuses == world.statuses

\* jack_info, pcm_info and chmap_info: how many descriptions they return (all of them
\* are taken to fit into queue_buf_recv, a page).
JackInfo(st) == IF st = "Ok" THEN Jacks ELSE 0
PcmInfo(st) == IF st = "Ok" THEN Streams ELSE None
ChmapInfo(st) == IF st = "Ok" THEN 1 ELSE 0

\* Every call begins with set_up unless it has been done.  Without the descriptions
\* of the streams it fails; without those of the jacks it does not.
SetUp(ok) ==
    \/ /\ set_up /\ ok /\ UNCHANGED infos
    \/ /\ ~set_up
       /\ \E j, p, c \in Statuses :
            /\ jack_infos' = JackInfo(j)
            /\ ok = (p = "Ok") /\ set_up' = ok
            /\ pcm_infos' = IF ok THEN PcmInfo(p) ELSE pcm_infos
            /\ chmap_infos' = IF ok THEN ChmapInfo(c) ELSE chmap_infos

\* output_streams, input_streams, *_supported: what the set-up has found, or an error.
Queries ==
    /\ Idle /\ ~set_up /\ Spend("control")
    /\ \E ok \in BOOLEAN : SetUp(ok)
    /\ UNCHANGED <<world, pcm_parameters, accepted, pcm, refused, panicked>>

\* jack_remap: the description of the jack is looked up without a check that there is
\* one.
JackRemap ==
    \E id \in 0 .. Jacks, ok \in BOOLEAN :
        /\ Idle /\ Spend("control") /\ SetUp(ok)
        /\ panicked' = (ok /\ id < Jacks /\ id >= jack_infos')
        /\ UNCHANGED <<world, pcm_parameters, accepted, pcm, refused>>

-----------------------------------------------------------------------------
(********************************* formats *********************************)

PcmFormat == 0 .. 24

\* Mutant: the flags begin at 1 << 1.
FormatFlagShifted(f) == 2^(f + 1)

\* PcmFormats: the flag of a format.
FormatFlag(f) == 2^f

\* VirtIOSndPcmInfo.formats, and contains on it.
FormatsField == FoldSet(LAMBDA f, acc : acc + 2^f, 0, Formats)
FormatsSupported(f) == (FormatsField \div FormatFlag(f)) % 2 = 1

-----------------------------------------------------------------------------
(******************************* parameters ********************************)

\* Mutant: the parameters are stored whatever the device answers.
StoreAlways(s, p, st) == pcm_parameters' = [pcm_parameters EXCEPT ![s] = p]

Store(s, p, st) ==
    pcm_parameters' = IF st = "Ok" THEN [pcm_parameters EXCEPT ![s] = p] ELSE pcm_parameters

\* pcm_set_params for a buffer of two bytes.  The owner asks for a format that
\* formats_supported has named; the device refuses one it does not support, and may
\* refuse others.
PcmSetParams ==
    \E s \in Stream, period \in 0 .. 3, f \in PcmFormat, ok \in BOOLEAN, st \in Statuses :
        LET p == [setup |-> TRUE, period |-> period, format |-> f]
            asked == ok /\ period # 0 /\ period <= 2 /\ 2 % period = 0
        IN
        /\ Idle /\ FormatsSupported(f)
        /\ Spend("control") /\ SetUp(ok)
        /\ (asked /\ f \notin Formats) => st # "Ok"
        /\ ~asked => st = "Ok"
        /\ refused' = (refused \/ (asked /\ f \notin Formats))
        /\ IF asked THEN Store(s, p, st) ELSE UNCHANGED pcm_parameters
        /\ accepted' = IF asked /\ st = "Ok" THEN [accepted EXCEPT ![s] = p] ELSE accepted
        /\ UNCHANGED <<world, pcm, panicked>>

\* pcm_prepare, pcm_start, pcm_stop and pcm_release change nothing in the driver but
\* by their set-up.
PcmCommand ==
    /\ Idle /\ ~set_up /\ Spend("control")
    /\ \E ok \in BOOLEAN : SetUp(ok)
    /\ UNCHANGED <<world, pcm_parameters, accepted, pcm, refused, panicked>>
-----------------------------------------------------------------------------
(******************************* transferring ******************************)

\* frames.chunks(period_size)
Chunks(frames, n) ==
    [i \in 1 .. (Len(frames) + n - 1) \div n |->
        SubSeq(frames, (i - 1) * n + 1, IF i * n < Len(frames) THEN i * n ELSE Len(frames))]

Frames == <<1, 2, 3>>
Xfer(id, data) == [id |-> id, data |-> data]

\* pcm_xfer, up to its loop.
PcmXfer ==
    \E s \in Stream, ok \in BOOLEAN :
        /\ Idle /\ Spend("xfer") /\ SetUp(ok)
        /\ call' = IF ok /\ pcm_parameters[s].setup
                   THEN [id |-> budget["xfer"], at |-> "add", remaining |-> Chunks(Frames, pcm_parameters[s].period),
                         tokens |-> [i \in 0 .. QUEUE_SIZE - 1 |-> 0], head |-> 0, tail |-> 0]
                   ELSE NoCall
        /\ UNCHANGED <<world, pcm_parameters, accepted, tx_queue, token_buf, played, returned, left, refused, panicked>>

\* Mutant: the loop ends as soon as all the chunks are queued.
FinishedQueueing == call.remaining = <<>>

Finished == call.remaining = <<>> /\ call.head = call.tail

After(i) == (i + 1) % QUEUE_SIZE

\* First half of the loop: add a chunk, or break.
XferAdd ==
    /\ ~panicked /\ call # NoCall /\ call.at = "add"
    /\ \/ /\ AvailableDesc(tx_queue) >= 3 /\ call.remaining # <<>>
          /\ tx_queue' = AddChain(tx_queue, 3, Xfer(call.id, Head(call.remaining)))
          /\ call' = [call EXCEPT !.remaining = Tail(@), !.tokens[call.head] = Token(tx_queue),
                                  !.head = After(@), !.at = "pop"]
          /\ UNCHANGED returned
       \/ /\ AvailableDesc(tx_queue) >= 3 /\ Finished
          /\ call' = NoCall /\ returned' = returned \union {call.id} /\ UNCHANGED tx_queue
       \/ /\ AvailableDesc(tx_queue) < 3 \/ (call.remaining = <<>> /\ ~Finished)
          /\ call' = [call EXCEPT !.at = "pop"] /\ UNCHANGED <<tx_queue, returned>>
    /\ UNCHANGED <<world, infos, pcm_parameters, accepted, token_buf, played, left, refused, panicked, budget>>

\* Second half: pop the oldest chunk.  A wrong token, or a status that is not SOk,
\* ends the call, whatever is still queued.
XferPop ==
    LET right == Pops(tx_queue, call.tokens[call.tail])
    IN
    /\ ~panicked /\ call # NoCall /\ call.at = "pop"
    /\ \/ /\ CanPop(tx_queue) /\ right /\ Response(tx_queue) = "SOk"
          /\ tx_queue' = PopUsed(tx_queue)
          /\ call' = [call EXCEPT !.tail = After(@), !.at = "add"] /\ UNCHANGED left
       \/ /\ CanPop(tx_queue) /\ ~(right /\ Response(tx_queue) = "SOk")
          /\ tx_queue' = IF right THEN PopUsed(tx_queue) ELSE tx_queue
          /\ call' = NoCall /\ left' = left \union {call.id}
       \/ /\ ~CanPop(tx_queue) /\ call' = [call EXCEPT !.at = "add"] /\ UNCHANGED <<tx_queue, left>>
    /\ UNCHANGED <<world, infos, pcm_parameters, accepted, token_buf, played, returned, refused, panicked, budget>>

\* pcm_xfer_nb: one period, in a copy that is kept until pcm_xfer_ok.
PcmXferNb ==
    \E s \in Stream, ok \in BOOLEAN : LET queued == ok /\ pcm_parameters[s].setup /\ CanAdd(tx_queue, 2)
                                        t == Token(tx_queue)
                                    IN
        /\ Idle /\ Spend("nb") /\ SetUp(ok)
        /\ tx_queue' = IF queued
                       THEN AddChain(tx_queue, 2, Xfer(100 + t, SubSeq(Frames, 1, pcm_parameters[s].period)))
                       ELSE tx_queue
        /\ token_buf' = IF queued THEN token_buf \union {t} ELSE token_buf
        /\ UNCHANGED <<world, pcm_parameters, accepted, call, played, returned, left, refused, panicked>>

\* Mutant: the buffers are let go before the device has used them.
PcmXferOkForgets ==
    \E t \in token_buf :
        /\ Idle
        /\ tx_queue' = IF Pops(tx_queue, t) THEN PopUsed(tx_queue) ELSE tx_queue
        /\ token_buf' = token_buf \ {t}
        /\ UNCHANGED <<world, infos, pcm_parameters, accepted, call, played, returned, left, refused, panicked, budget>>

\* pcm_xfer_ok: an error if this token is not the next one used.
PcmXferOk ==
    \E t \in token_buf :
        /\ Idle /\ Pops(tx_queue, t)
        /\ tx_queue' = PopUsed(tx_queue) /\ token_buf' = token_buf \ {t}
        /\ UNCHANGED <<world, infos, pcm_parameters, accepted, call, played, returned, left, refused, panicked, budget>>

-----------------------------------------------------------------------------
(******************************** the device *******************************)

\* The device plays what it holds, blocking transfers in their order, and reports.
InOrder(t) ==
    \A u \in Held(tx_queue) :
        tx_queue.chains[u].about.id = tx_queue.chains[t].about.id =>
            tx_queue.chains[t].about.data[1] <= tx_queue.chains[u].about.data[1]

DevicePlays ==
    \E t \in Held(tx_queue) : LET x == tx_queue.chains[t].about
                              IN
        /\ InOrder(t)
        /\ played' = played \o [i \in 1 .. Len(x.data) |-> [id |-> x.id, byte |-> x.data[i]]]
        /\ tx_queue' = Use(tx_queue, t, "SOk")
        /\ UNCHANGED <<world, infos, pcm_parameters, accepted, call, token_buf, returned, left, refused, panicked, budget>>

DeviceFails ==
    \E t \in Held(tx_queue) :
        /\ Spend("errors") /\ tx_queue' = Use(tx_queue, t, "SIoErr")
        /\ UNCHANGED <<world, infos, pcm_parameters, accepted, call, token_buf, played, returned, left, refused, panicked>>

Init ==
    /\ world \in Worlds
    /\ set_up = FALSE /\ jack_infos = None /\ pcm_infos = None /\ chmap_infos = None
    /\ pcm_parameters = [s \in Stream |-> Default] /\ accepted = [s \in Stream |-> Default]
    /\ tx_queue = NewVirtQueue(QUEUE_SIZE, world.indirect) /\ call = NoCall /\ token_buf = {}
    /\ played = <<>> /\ returned = {} /\ left = {} /\ refused = FALSE /\ panicked = FALSE
    /\ budget = world.budget

Next ==
    \/ Queries \/ JackRemap \/ PcmSetParams \/ PcmCommand
    \/ PcmXfer \/ XferAdd \/ XferPop \/ PcmXferNb \/ PcmXferOk
    \/ DevicePlays \/ DeviceFails

Spec == Init /\ [][Next]_vars

-----------------------------------------------------------------------------
(******************************** properties *******************************)

\* A blocking transfer that has succeeded has been played, whole and in order, over
\* direct and indirect descriptors, with the ring full and other transfers in it
\* (pcm_xfer).
PlayedInOrder ==
    \A id \in returned :
        LET mine == SelectSeq(played, LAMBDA b : b.id = id)
        IN  [i \in 1 .. Len(mine) |-> mine[i].byte] = Frames

\* What the driver takes for the parameters of a stream are those the device has
\* accepted, and no format that formats_supported names is one the device refuses as
\* unsupported (pcm_set_params, From<PcmFormat> for PcmFormats).
ParametersAgree == pcm_parameters = accepted /\ ~refused

\* The buffers of every chunk the device holds are still there: those of the call
\* under way, or kept by token (pcm_xfer_nb, pcm_xfer_ok).  The exception is a
\* blocking transfer that returned early.
BuffersKept ==
    \A t \in DOMAIN tx_queue.chains : LET id == tx_queue.chains[t].about.id
                                      IN  id = call.id \/ t \in token_buf \/ id \in left
=============================================================================
