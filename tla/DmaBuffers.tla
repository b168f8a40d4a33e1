----------------------------- MODULE DmaBuffers -----------------------------
(***************************************************************************)
(* From a DXGK call to the device and back: DxgkDdiPresent, DxgkDdiRender  *)
(* and DxgkDdiBuildPagingBuffer translate what they are given into commands*)
(* in a DMA buffer and leave a CommandDmaPrivate beside it; SubmitCommand  *)
(* and SubmitCommandVirtual take that private data, send the commands and  *)
(* see to the fence; the handler thread takes the answers.                 *)
(*                                                                         *)
(* Each call is atomic: it works on arguments nobody else holds.  What is  *)
(* shared is the busy count of an allocation, the page list that several   *)
(* paging calls collect, and the queue to the device.  A command takes one *)
(* slot of DMA buffer; `space' is what dxgkrnl offers to one call.         *)
(***************************************************************************)
EXTENDS Naturals, Sequences, FiniteSets, SequencesExt

CONSTANTS
    Allocs,         \* allocations
    Blobs,          \* those that are host blobs; the others are 3D resources
    Coherent,       \* 3D resources that need an explicit transfer
    Pages,          \* pages of a 3D resource
    Bufs,           \* DMA buffers
    Spaces,         \* bound: slots dxgkrnl offers to one call
    MaxFence        \* bound: fences dxgkrnl uses

DmaBuffersAssumption ==
    Blobs \subseteq Allocs /\ Coherent \subseteq Allocs \ Blobs /\ Pages \in Nat \ {0}

VARIABLES
    buf,            \* the private data beside each DMA buffer
    map,            \* (offset of the last update, page list) of a 3D resource
    accepted,       \* history: page table updates that returned success
    busy,           \* Allocation::busy.1
    leaked,         \* history: marks of calls that failed after marking
    next,           \* the next fence of dxgkrnl
    chan,           \* commands sent and not answered: <<fence, command>>
    jobs,           \* per fence: answers to come and the AllocationsBatch
    submitted,      \* history: fences handed over successfully, and completed ones
    completed,
    host,           \* what the host has as backing of a 3D resource
    gpuva           \* VidMm addresses resources virtually, not through the aperture

dxgk == <<buf, leaked, next, accepted>>
vars == <<dxgk, map, busy, chan, jobs, submitted, completed, host, gpuva>>

\* CommandDmaPrivate: taken by a submission, or written by the call that builds it.
NoPriv == [tag |-> FALSE, cmds |-> <<>>, allocs |-> <<>>]
NewPriv(cmds, allocs) == [tag |-> TRUE, cmds |-> cmds, allocs |-> allocs]

Init ==
    /\ buf = [b \in Bufs |-> NoPriv]
    /\ map = [a \in Allocs |-> [lo |-> 0, list |-> <<>>]]
    /\ accepted = [a \in Allocs |-> {}]
    /\ busy = [a \in Allocs |-> 0] /\ leaked = [a \in Allocs |-> 0]
    /\ next = 1 /\ chan = <<>> /\ jobs = <<>>
    /\ submitted = {} /\ completed = {}
    /\ host = [a \in Allocs |-> <<>>]
    /\ gpuva \in BOOLEAN

Refs(s, a) == Len(SelectSeq(s, LAMBDA x : x = a))

\* Allocation::mark_busy and mark_free for every allocation of a list.
MarkBusy(s) == busy' = [a \in Allocs |-> busy[a] + Refs(s, a)]

MarkFree(s) == busy' = [a \in Allocs |-> busy[a] - Refs(s, a)]

-----------------------------------------------------------------------------
(****************************** the commands ********************************)

\* The constructors of Command, one for each thing the host can be told.
\* A blit and a blob's type go as 3D command streams of the driver's own.
VirglBlit(src, dst) == <<"SUBMIT_3D", "copy_region", src, dst>>
VirglSetType(a) == <<"SUBMIT_3D", "set_type", a>>
FromItem(item) ==
    CASE item[1] = "submit" -> <<"SUBMIT_3D">>
      [] item[1] = "to_host" -> <<"TRANSFER_TO_HOST_3D", item[2]>>
      [] item[1] = "from_host" -> <<"TRANSFER_FROM_HOST_3D", item[2]>>
NopCommand == <<"nop">>
AttachBacking(a) == <<"ATTACH_BACKING", a, [i \in 1..Pages |-> i]>>
AttachBackingVirtual(a, list) == <<"ATTACH_BACKING", a, list>>
DetachBacking(a) == <<"DETACH_BACKING", a>>

-----------------------------------------------------------------------------
(******************************* DxgkDdiPresent *****************************)

\* Allocation::needs_transfer; a guest blob cannot be created.
NeedsTransfer(a) == a \in Coherent

Opt(p, c) == IF p THEN <<c>> ELSE <<>>

\* The commands of a blit from src to dst, in order.  Both set_type commands look
\* at the blob information of the source.
PresentCommands(src, dst, info) ==
    Opt(src \in Blobs /\ info, VirglSetType(src))
    \o Opt(dst \in Blobs /\ src \in Blobs /\ info, VirglSetType(dst))
    \o Opt(NeedsTransfer(src), FromItem(<<"to_host", src>>))
    \o <<VirglBlit(src, dst)>>
    \o Opt(NeedsTransfer(dst), FromItem(<<"from_host", dst>>))

\* Mutant: the destination is not marked busy.
PresentSrcOnly(b, src, dst, space) ==
    /\ ~buf[b].tag
    /\ \E info \in BOOLEAN :
         /\ Len(PresentCommands(src, dst, info)) <= space
         /\ buf' = [buf EXCEPT ![b] = NewPriv(PresentCommands(src, dst, info), <<src, dst>>)]
    /\ MarkBusy(<<src>>)
    /\ UNCHANGED <<map, accepted, leaked, next, chan, jobs, submitted, completed, host, gpuva>>

\* Device::present.  Without source, destination, blit flag or DMA buffer there is
\* nothing to do; too little space in the patch list, the DMA buffer or the private
\* data is reported before anything is marked.
Present(b, src, dst, space) ==
    /\ ~buf[b].tag
    /\ \E info \in BOOLEAN :
         /\ Len(PresentCommands(src, dst, info)) <= space
         /\ buf' = [buf EXCEPT ![b] = NewPriv(PresentCommands(src, dst, info), <<src, dst>>)]
    /\ MarkBusy(<<src, dst>>)
    /\ UNCHANGED <<map, accepted, leaked, next, chan, jobs, submitted, completed, host, gpuva>>

-----------------------------------------------------------------------------
(******************************** DxgkDdiRender *****************************)

\* The user's command stream, body by body.  A body is <<"nop">>, <<"fence">>,
\* <<"bad">> (an id, flags or a size that fails validation), <<"submit">>, or
\* transfers of n boxes of a resource.
CommandSlice(body) == body[1] # "bad"

\* CommandBodyIterator.
BodyItems(body) ==
    CASE body[1] = "submit" -> << <<"submit">> >>
      [] body[1] \in {"to_host", "from_host"} -> [i \in 1..body[3] |-> <<body[1], body[2]>>]
      [] OTHER -> <<>>

Translated(stream) ==
    FlattenSeq([i \in 1..Len(stream) |->
        [k \in 1..Len(BodyItems(stream[i])) |-> FromItem(BodyItems(stream[i])[k])]])

\* Nothing but Nop becomes one Nop command.
RenderCommands(stream) ==
    IF Translated(stream) = <<>> /\ \E i \in 1..Len(stream) : stream[i] = <<"nop">>
    THEN <<NopCommand>> ELSE Translated(stream)

\* Device::render: the closure inside try_seh.  An allocation handle, a body or a
\* size that does not fit ends it before anything is marked; at its end all
\* allocations are marked.
RenderClosure(stream, space) ==
    /\ \A i \in 1..Len(stream) : CommandSlice(stream[i]) /\ stream[i][1] # "fence"
    /\ Len(Translated(stream)) <= space

\* ... and after it: when the private data is too small, the marks stay.
Render(b, stream, allocs, space) ==
    /\ ~buf[b].tag
    /\ RenderClosure(stream, space)
    /\ MarkBusy(allocs)
    /\ \/ /\ buf' = [buf EXCEPT ![b] = NewPriv(RenderCommands(stream), allocs)]
          /\ UNCHANGED leaked
       \/ /\ leaked' = [a \in Allocs |-> leaked[a] + Refs(allocs, a)]
          /\ UNCHANGED buf
    /\ UNCHANGED <<map, accepted, next, chan, jobs, submitted, completed, host, gpuva>>

-----------------------------------------------------------------------------
(************************** DxgkDdiBuildPagingBuffer ************************)

CanAttach(a) == a \notin Blobs
Attached(a) == Len(map[a].list)         \* total_attached_bytes

\* The private data of a paging buffer: used as it is when it carries the tag.
PagingPriv(b, cmds) ==
    IF buf[b].tag THEN [buf[b] EXCEPT !.cmds = @ \o cmds] ELSE NewPriv(cmds, <<>>)

\* MAP_APERTURE_SEGMENT: attach the pages of the MDL.
MapAperture(b, a, space) ==
    /\ ~gpuva /\ CanAttach(a) /\ 1 < space
    /\ buf' = [buf EXCEPT ![b] =
                 PagingPriv(b, <<AttachBacking(a)>>)]
    /\ UNCHANGED <<map, accepted, busy, leaked, next, chan, jobs, submitted, completed, host, gpuva>>

\* UNMAP_APERTURE_SEGMENT.
UnmapAperture(b, a, space) ==
    /\ ~gpuva /\ CanAttach(a) /\ 1 < space
    /\ buf' = [buf EXCEPT ![b] = PagingPriv(b, <<DetachBacking(a)>>)]
    /\ UNCHANGED <<map, accepted, busy, leaked, next, chan, jobs, submitted, completed, host, gpuva>>

\* Mutant: the offset of the last update is not recorded.
AttachPagesForgets(a, offset, pages) ==
    [lo |-> map[a].lo,
     list |-> IF offset < map[a].lo THEN pages \o map[a].list ELSE map[a].list \o pages]

\* Allocation::attach_pages, not yet full: an update that starts below the last one
\* goes to the front of the list.
AttachPages(a, offset, pages) ==
    [lo |-> offset,
     list |-> IF offset < map[a].lo THEN pages \o map[a].list ELSE map[a].list \o pages]

\* UPDATE_PAGE_TABLE for the page at `offset'.  The list is extended first; the call
\* that completes it also writes the attach command, if there is room for it.  With
\* a full list the update is taken for a secondary one.  dxgkrnl fills a page table
\* from a page outwards, and repeats a call that asked for a larger buffer.
UpdatePageTable(b, a, offset, space) ==
    /\ gpuva /\ CanAttach(a)
    /\ accepted[a] = {} \/ \E p \in accepted[a] : offset \in {p - 1, p + 1}
    /\ offset \notin accepted[a]
    /\ IF Attached(a) < Pages
       THEN LET new == AttachPages(a, offset, <<offset>>) IN
            /\ map' = [map EXCEPT ![a] = new]
            /\ IF Len(new.list) < Pages
               THEN accepted' = [accepted EXCEPT ![a] = @ \union {offset}] /\ UNCHANGED buf
               ELSE IF 1 >= space
               THEN UNCHANGED <<buf, accepted>>
               ELSE /\ buf' = [buf EXCEPT ![b] = PagingPriv(b, <<AttachBackingVirtual(a, new.list)>>)]
                    /\ accepted' = [accepted EXCEPT ![a] = @ \union {offset}]
       ELSE /\ accepted' = [accepted EXCEPT ![a] = @ \union {offset}]
            /\ UNCHANGED <<map, buf>>
    /\ UNCHANGED <<busy, leaked, next, chan, jobs, submitted, completed, host, gpuva>>

-----------------------------------------------------------------------------
(********************* SubmitCommand, SubmitCommandVirtual *******************)

Fence == next

\* Mutant: a submission without commands is dropped.
SubmitNopDrops(allocs) ==
    MarkFree(allocs) /\ UNCHANGED <<completed, chan, jobs>>

\* GpuChannel::submit_command with a Nop: completed on the spot.
SubmitNop(allocs) ==
    /\ MarkFree(allocs)
    /\ completed' = completed \union {Fence} /\ UNCHANGED <<chan, jobs>>

\* GpuChannel::submit_command and submit_command_batch: one request per command,
\* all sharing the batch.
SubmitBatch(cmds, allocs) ==
    /\ chan' = chan \o [i \in 1..Len(cmds) |-> <<Fence, cmds[i]>>]
    /\ jobs' = Append(jobs, [fence |-> Fence, left |-> Len(cmds), allocs |-> allocs])
    /\ UNCHANGED <<busy, completed>>

\* The private data is taken; without commands, or with just a Nop, there is nothing
\* to send.
SubmitPrivate(b) ==
    /\ buf[b].tag /\ buf' = [buf EXCEPT ![b] = NoPriv]
    /\ IF buf[b].cmds \in {<<>>, <<NopCommand>>}
       THEN SubmitNop(buf[b].allocs)
       ELSE SubmitBatch(buf[b].cmds, buf[b].allocs)

\* Adapter::submit_command for a buffer with commands in it.
SubmitCommand(b) ==
    /\ next <= MaxFence /\ next' = next + 1
    /\ SubmitPrivate(b)
    /\ submitted' = submitted \union {Fence}
    /\ UNCHANGED <<map, accepted, leaked, host, gpuva>>

\* ... for an empty range, or private data without the tag: a Nop.
SubmitEmpty ==
    /\ next <= MaxFence /\ next' = next + 1
    /\ SubmitNop(<<>>)
    /\ submitted' = submitted \union {Fence}
    /\ UNCHANGED <<buf, map, accepted, leaked, host, gpuva>>

\* The command built in user mode that comes with a submission: one body, all there
\* is.  Its fence form waits for a fence of the device (see FenceSubmissions).
UserCommand(body) == CommandSlice(body) /\ body[1] = "submit"

\* Adapter::submit_command_virtual with such a command: a submission is sent as it is,
\* if the copy of its data can be allocated; anything else is refused with its fence.
SubmitVirtual(body) ==
    /\ next <= MaxFence /\ next' = next + 1
    /\ \/ /\ UserCommand(body)
          /\ SubmitBatch(<<FromItem(body)>>, <<>>) /\ submitted' = submitted \union {Fence}
       \/ UNCHANGED <<busy, chan, jobs, submitted, completed>>
    /\ UNCHANGED <<buf, map, accepted, leaked, host, gpuva>>

-----------------------------------------------------------------------------
(******************************** the answers *******************************)

\* The host: what the oldest command does there.
Execute(cmd) ==
    host' = CASE cmd[1] = "ATTACH_BACKING" -> [host EXCEPT ![cmd[2]] = cmd[3]]
              [] cmd[1] = "DETACH_BACKING" -> [host EXCEPT ![cmd[2]] = <<>>]
              [] OTHER -> host

JobOf(f) == CHOOSE i \in 1..Len(jobs) : jobs[i].fence = f

\* Queue::response: DmaCompletedBatched and the others.  The last answer drops the
\* AllocationsBatch, which frees the allocations, and completes the fence.
Answer ==
    /\ chan # <<>> /\ chan' = Tail(chan)
    /\ Execute(Head(chan)[2])
    /\ LET f == Head(chan)[1]
           j == jobs[JobOf(f)] IN
         IF j.left = 1
         THEN /\ jobs' = RemoveAt(jobs, JobOf(f))
              /\ MarkFree(j.allocs) /\ completed' = completed \union {f}
         ELSE /\ jobs' = [jobs EXCEPT ![JobOf(f)].left = @ - 1]
              /\ UNCHANGED <<busy, completed>>
    /\ UNCHANGED <<buf, map, accepted, leaked, next, submitted, gpuva>>

\* Streams a user may write: what they can contain is in CommandSlice and BodyItems.
Streams ==
    LET res == CHOOSE a \in Allocs : TRUE IN
    { << <<"nop">> >>, << <<"submit">>, <<"nop">> >>, << <<"to_host", res, 2>> >>,
      << <<"submit">>, <<"fence">> >>, << <<"bad">> >>, <<>> }

Next ==
    \/ \E b \in Bufs, s \in Spaces :
         /\ next <= MaxFence
         /\ \/ \E src, dst \in Allocs : src # dst /\ Present(b, src, dst, s)
            \/ \E st \in Streams, a \in Allocs : Render(b, st, <<a>>, s) /\ leaked[a] = 0
            \/ \E a \in Allocs : buf[b] = NoPriv /\ (MapAperture(b, a, s) \/ UnmapAperture(b, a, s))
            \/ \E a \in Allocs, p \in 1..Pages : buf[b] = NoPriv /\ UpdatePageTable(b, a, p, s)
    \/ \E b \in Bufs : SubmitCommand(b)
    \/ SubmitEmpty
    \/ \E body \in {<<"submit">>, <<"bad">>} : SubmitVirtual(body)
    \/ Answer

\* dxgkrnl submits what was built; the device answers.
Fairness == WF_vars(Answer)

Spec == Init /\ [][Next]_vars /\ Fairness

-----------------------------------------------------------------------------
(******************************** properties *******************************)

\* An allocation is busy exactly as long as work that uses it is built, queued or on
\* the device: no path through Present, Render, the two submissions and the answers
\* marks it without freeing it or frees it early.  (A Render that fails for want of
\* private data leaves its marks: `leaked'.)
BusyMatchesWork ==
    \A a \in Allocs :
        busy[a] = leaked[a]
                  + FoldSet(LAMBDA b, n : n + Refs(buf[b].allocs, a), 0, Bufs)
                  + FoldSeq(LAMBDA j, n : n + Refs(j.allocs, a), 0, jobs)

\* The list of pages the host gets for a resource is the whole resource in order,
\* whichever way dxgkrnl walked its page table.
BackingWhole ==
    \A a \in Allocs : host[a] # <<>> => host[a] = [i \in 1..Pages |-> i]

\* Every fence handed over successfully is completed.
NoneOwed == submitted \subseteq completed

\* The update that completes a page table leaves the attach command in a paging
\* buffer, also when it was repeated because the first attempt had too little DMA
\* buffer: the duplicate case of attach_pages.
AttachNotLost ==
    \A a \in Allocs :
        accepted[a] = 1..Pages =>
            \/ host[a] # <<>>
            \/ \E b \in Bufs : \E i \in 1..Len(buf[b].cmds) : SubSeq(buf[b].cmds[i], 1, 2) = <<"ATTACH_BACKING", a>>
            \/ \E i \in 1..Len(chan) : SubSeq(chan[i][2], 1, 2) = <<"ATTACH_BACKING", a>>
=============================================================================
